---------------------------- MODULE Spec2Model ----------------------------
(***************************************************************************)
(* Audio -> Mood -> Color pipeline of src/index.js: the feature extractor  *)
(* getAudioFeatures with its carried history _state, the classifier        *)
(* getMood, the palette MOOD_PALETTE and the mapper moodToColor, driven    *)
(* frame by frame as drawVisualization drives them.                        *)
(*                                                                         *)
(* Numbers.  The source computes in IEEE doubles; the model computes in    *)
(* exact rationals [n, d] (d > 0) for every quantity that is a quotient of *)
(* integers (energy, flux, bassRatio, zcr, tempo, lightness), so that the  *)
(* comparisons against the source's decimal thresholds are exact.  The     *)
(* three transcendental quantities use fixed-point tables: log2 in 1/100   *)
(* units (brightness, spread) and an integer k-th root in 1/4 units        *)
(* (flatness).  All intermediate values stay below 2^31.                   *)
(***************************************************************************)
EXTENDS Integers, Sequences, FiniteSets, TLC

(***************************************************************************)
(* Bounds of the model.                                                    *)
(***************************************************************************)
\* dataArray.length of the model's frames (the source's is frequencyBinCount).
NumBins == 3
\* Frames processed in one behaviour.
MaxCalls == 3
\* Frames processed in one behaviour of the beat pattern (SpecTempo).
MaxBeats == 7
\* Frames processed in one behaviour of the capture UI (SpecDriver).
MaxFrames == 2
\* Frames processed in one behaviour of the bass scenario (SpecBass).
MaxBassCalls == 3
\* Frames processed in one behaviour of the onset pattern (SpecOnset).
MaxOnsetCalls == 3
MaxStreams == 2

\* Bin magnitudes the model's frames draw from (a Uint8Array holds 0..255).
Mags == {0, 255}

\* null of the source: the value that is no frame and no node.
Null == <<>>

(***************************************************************************)
(* _state: the history getAudioFeatures carries across frames.             *)
(***************************************************************************)
VARIABLES
    prevEnergy,     \* _state.prevEnergy
    prevSpectrum,   \* _state.prevSpectrum: Null or the copy of the last frame
    onsetTimes      \* _state.onsetTimes

(***************************************************************************)
(* Rationals.                                                              *)
(***************************************************************************)
Rat(n, d) == [n |-> n, d |-> d]
Zero == Rat(0, 1)
One == Rat(1, 1)
\* The decimal literal c/100 of the source (0.05 is Lit(5)).
Lit(c) == Rat(c, 100)
RLt(x, y) == x.n * y.d < y.n * x.d
RGt(x, y) == RLt(y, x)
REq(x, y) == x.n * y.d = y.n * x.d
RSub(x, y) == Rat(x.n * y.d - y.n * x.d, x.d * y.d)
\* Math.min(1, x) and Math.max(0, x)
Min1(x) == IF RLt(One, x) THEN One ELSE x
Max0(x) == IF RLt(x, Zero) THEN Zero ELSE x
InUnit(x) == x.d > 0 /\ 0 <= x.n /\ x.n <= x.d
IsZero(x) == x.n = 0

RECURSIVE Gcd(_, _)
Gcd(a, b) == IF b = 0 THEN a ELSE Gcd(b, a % b)
\* x in lowest terms (x >= 0)
Norm(x) == Rat(x.n \div Gcd(x.n, x.d), x.d \div Gcd(x.n, x.d))

(***************************************************************************)
(* Math.log2 in 1/100 units, Math.sqrt and the k-th root on integers.      *)
(***************************************************************************)
RECURSIVE Pow(_, _)
Pow(b, k) == IF k = 0 THEN 1 ELSE b * Pow(b, k - 1)

Log2C == <<0, 100, 158, 200, 232, 258, 281, 300>>

RECURSIVE FloorLog2(_)
\* the e with 2^e <= x < 2^(e+1), x >= 1
FloorLog2(x) == IF x < 2 THEN 0 ELSE 1 + FloorLog2(x \div 2)

RECURSIVE FracBits(_, _, _)
\* k more binary digits of log2(y / 2^14) for 2^14 <= y < 2^15, by squaring
FracBits(y, k, acc) ==
    IF k = 0 THEN acc
    ELSE LET sq == (y * y) \div 16384
         IN  IF sq >= 32768 THEN FracBits(sq \div 2, k - 1, 2 * acc + 1)
             ELSE FracBits(sq, k - 1, 2 * acc)

\* Math.log2(x) in 1/100 units beyond the table: the exponent and ten
\* binary digits of the mantissa's logarithm, rounded (within 1/100 of
\* log2, and equal to the table on 1..8).
Log2Fix(x) ==
    LET e == FloorLog2(x)
    IN  100 * e + (FracBits((x * 16384) \div Pow(2, e), 10, 0) * 100 + 512) \div 1024

\* Math.log2(x) in 1/100 units, x >= 1
Log2(x) == IF x \in DOMAIN Log2C THEN Log2C[x] ELSE Log2Fix(x)

RECURSIVE RootBin(_, _, _, _)
\* the r with lo <= r < hi and r^k <= x < (r+1)^k, given lo^k <= x < hi^k
RootBin(x, k, lo, hi) ==
    IF hi - lo <= 1 THEN lo
    ELSE LET mid == (lo + hi) \div 2
         IN  IF Pow(mid, k) <= x THEN RootBin(x, k, mid, hi)
             ELSE RootBin(x, k, lo, mid)
\* floor of the k-th root of x, for 0 <= x < top^k
Root(x, k, top) == RootBin(x, k, 0, top)
\* floor of Math.sqrt(x), for 0 <= x < 2^30
ISqrt(x) == Root(x, 2, 32768)

(***************************************************************************)
(* Frames.  A frame is a function 0..N-1 -> 0..255, indexed as the source  *)
(* indexes dataArray.                                                      *)
(***************************************************************************)
Len0(f) == Cardinality(DOMAIN f)

\* The loops over the bins are summed by halves, the two halves being the
\* loop's first and last iterations.
Mid(lo, hi) == (lo + hi) \div 2

RECURSIVE SumBins(_, _, _)
\* sum of f[i] for lo <= i < hi
SumBins(f, lo, hi) ==
    IF lo >= hi THEN 0
    ELSE IF hi = lo + 1 THEN f[lo]
    ELSE SumBins(f, lo, Mid(lo, hi)) + SumBins(f, Mid(lo, hi), hi)

RECURSIVE WeightedLogSum(_, _, _)
\* sum of log2(i) * f[i] for lo <= i < hi, in 1/100 units
WeightedLogSum(f, lo, hi) ==
    IF lo >= hi THEN 0
    ELSE IF hi = lo + 1 THEN (IF f[lo] = 0 THEN 0 ELSE Log2(lo) * f[lo])
    ELSE WeightedLogSum(f, lo, Mid(lo, hi)) + WeightedLogSum(f, Mid(lo, hi), hi)

RECURSIVE SpreadSum(_, _, _, _)
\* sum of (log2(i) - logCentroid)^2 * f[i] for lo <= i < hi, in 1/100^2 units
SpreadSum(f, c, lo, hi) ==
    IF lo >= hi THEN 0
    ELSE IF hi = lo + 1
         THEN (IF f[lo] = 0 THEN 0 ELSE (Log2(lo) - c) * (Log2(lo) - c) * f[lo])
    ELSE SpreadSum(f, c, lo, Mid(lo, hi)) + SpreadSum(f, c, Mid(lo, hi), hi)

RECURSIVE RawFlux_ShiftedIndex(_, _, _, _)
\* RawFlux reading the previous frame one bin too low
RawFlux_ShiftedIndex(f, prev, lo, hi) ==
    IF lo >= hi THEN 0
    ELSE IF hi = lo + 1
         THEN LET p == IF lo = 0 THEN 0 ELSE prev[lo - 1]
              IN  IF f[lo] - p > 0 THEN f[lo] - p ELSE 0
    ELSE RawFlux_ShiftedIndex(f, prev, lo, Mid(lo, hi))
         + RawFlux_ShiftedIndex(f, prev, Mid(lo, hi), hi)

RECURSIVE RawFlux(_, _, _, _)
\* sum of the positive f[i] - prev[i] for lo <= i < hi
RawFlux(f, prev, lo, hi) ==
    IF lo >= hi THEN 0
    ELSE IF hi = lo + 1 THEN (IF f[lo] - prev[lo] > 0 THEN f[lo] - prev[lo] ELSE 0)
    ELSE RawFlux(f, prev, lo, Mid(lo, hi)) + RawFlux(f, prev, Mid(lo, hi), hi)

RECURSIVE NonZeroCount(_, _, _)
NonZeroCount(f, lo, hi) ==
    IF lo >= hi THEN 0
    ELSE IF hi = lo + 1 THEN (IF f[lo] > 0 THEN 1 ELSE 0)
    ELSE NonZeroCount(f, lo, Mid(lo, hi)) + NonZeroCount(f, Mid(lo, hi), hi)

RECURSIVE NonZeroProduct(_, _, _)
\* exp of the source's logSum: the product of the positive f[i], lo <= i < hi
NonZeroProduct(f, lo, hi) ==
    IF lo >= hi THEN 1
    ELSE (IF f[lo] > 0 THEN f[lo] ELSE 1) * NonZeroProduct(f, lo + 1, hi)

RECURSIVE Crossings_MidpointNegative(_, _)
\* Crossings with the 128 midpoint itself taken as below the zero line
Crossings_MidpointNegative(t, i) ==
    IF i >= Len(t) THEN 0
    ELSE LET prev == t[i] - 128
             curr == t[i + 1] - 128
         IN  (IF (prev > 0 /\ curr <= 0) \/ (prev <= 0 /\ curr > 0) THEN 1 ELSE 0)
             + Crossings_MidpointNegative(t, i + 1)

RECURSIVE Crossings(_, _)
\* sign changes around 128 between t[j] and t[j+1], for i <= j < Len(t)
Crossings(t, i) ==
    IF i >= Len(t) THEN 0
    ELSE LET prev == t[i] - 128
             curr == t[i + 1] - 128
         IN  (IF (prev >= 0 /\ curr < 0) \/ (prev < 0 /\ curr >= 0) THEN 1 ELSE 0)
             + Crossings(t, i + 1)

RECURSIVE TotalInterval(_, _)
\* sum of onsets[i] - onsets[i-1] for the i from the given one to Len(onsets)
TotalInterval(onsets, i) ==
    IF i > Len(onsets) THEN 0
    ELSE (onsets[i] - onsets[i - 1]) + TotalInterval(onsets, i + 1)

\* Prune with an if for the while: at most one stale entry is dropped
Prune_OnlyOne(onsets, cutoff) ==
    IF Len(onsets) > 0 /\ onsets[1] < cutoff THEN Tail(onsets) ELSE onsets

RECURSIVE Prune_KeepsNewest(_, _)
\* Prune that never drops the newest entry (length > 1 for length > 0)
Prune_KeepsNewest(onsets, cutoff) ==
    IF Len(onsets) > 1 /\ onsets[1] < cutoff
    THEN Prune_KeepsNewest(Tail(onsets), cutoff)
    ELSE onsets

RECURSIVE Prune(_, _)
\* while (onsetTimes.length > 0 && onsetTimes[0] < cutoff) onsetTimes.shift()
Prune(onsets, cutoff) ==
    IF Len(onsets) > 0 /\ onsets[1] < cutoff THEN Prune(Tail(onsets), cutoff)
    ELSE onsets

(***************************************************************************)
(* The features of getAudioFeatures, one operator per returned field.      *)
(***************************************************************************)
\* totalAmplitude accumulated from bin 0
TotalAmplitude_WholeFrame(f) == SumBins(f, 0, Len0(f))

TotalAmplitude(f) == SumBins(f, 1, Len0(f))

\* (sum / dataArray.length) / 255, in lowest terms
Energy(f) == Norm(Rat(SumBins(f, 1, Len0(f)), Len0(f) * 255))

RECURSIVE LinearSum(_, _, _)
\* sum of i * f[i] for lo <= i < hi
LinearSum(f, lo, hi) ==
    IF lo >= hi THEN 0
    ELSE IF hi = lo + 1 THEN lo * f[lo]
    ELSE LinearSum(f, lo, Mid(lo, hi)) + LinearSum(f, Mid(lo, hi), hi)

\* Brightness normalised by the log of the highest bin index
Brightness_TopBinScale(f) ==
    LET total == TotalAmplitude(f)
    IN  IF total > 0
        THEN Rat(WeightedLogSum(f, 1, Len0(f)), total * Log2(Len0(f) - 1))
        ELSE Rat(0, Log2(Len0(f)))

\* Brightness as the centroid on the linear bin scale
Brightness_LinearCentroid(f) ==
    LET total == TotalAmplitude(f)
    IN  IF total > 0
        THEN Rat(LinearSum(f, 1, Len0(f)), total * Len0(f))
        ELSE Rat(0, Len0(f))

\* logCentroid / Math.log2(dataArray.length)
Brightness(f) ==
    LET total == TotalAmplitude(f)
    IN  IF total > 0
        THEN Rat(WeightedLogSum(f, 1, Len0(f)), total * Log2(Len0(f)))
        ELSE Rat(0, Log2(Len0(f)))

\* Math.min(1, sqrt(spreadSum / totalAmplitude) / Math.log2(dataArray.length))
Spread(f) ==
    LET total == TotalAmplitude(f)
        c == IF total > 0 THEN WeightedLogSum(f, 1, Len0(f)) \div total ELSE 0
    IN  IF total > 0
        THEN Min1(Rat(ISqrt(SpreadSum(f, c, 1, Len0(f)) \div total), Log2(Len0(f))))
        ELSE Zero

\* rawFlux / totalAmplitude against the stored previous frame
Flux(prevSpec, f) ==
    IF prevSpec # Null /\ TotalAmplitude(f) > 0
    THEN Rat(RawFlux(f, prevSpec, 0, Len0(f)), TotalAmplitude(f))
    ELSE Zero

\* Math.exp(logSum / nonZeroCount) in 1/4 units: the k-th root of the
\* product of the k positive magnitudes, which is their common value when
\* they are all equal.
GeometricMean4(f) ==
    LET k == NonZeroCount(f, 1, Len0(f))
        positive == {f[i] : i \in 1 .. Len0(f) - 1} \ {0}
    IN  IF Cardinality(positive) = 1
        THEN 4 * (CHOOSE m \in positive : TRUE)
        ELSE Root(NonZeroProduct(f, 1, Len0(f)) * Pow(4, k), k, 1021)

\* Math.min(1, geometricMean / arithmeticMean)
Flatness(f) ==
    LET total == TotalAmplitude(f)
        k == NonZeroCount(f, 1, Len0(f))
    IN  IF total > 0 /\ k > 0
        THEN Min1(Rat(GeometricMean4(f) * Len0(f), 4 * total))
        ELSE Zero

\* Math.max(1, Math.floor(dataArray.length * 0.10))
BassEnd(f) == IF Len0(f) \div 10 > 1 THEN Len0(f) \div 10 ELSE 1

BassRatio(f) ==
    IF TotalAmplitude(f) > 0
    THEN Min1(Rat(SumBins(f, 0, BassEnd(f)), TotalAmplitude(f)))
    ELSE Zero

\* crossings / (timeDomainArray.length - 1), 0 without a time-domain frame
Zcr(t) ==
    IF t # Null /\ Len(t) > 1 THEN Rat(Crossings(t, 1), Len(t) - 1) ELSE Zero

\* Tempo averaging over onsetTimes.length instead of onsetTimes.length - 1
Tempo_AvgOverLength(onsets) ==
    IF Len(onsets) >= 2
    THEN LET total == TotalInterval(onsets, 2)
             k == Len(onsets)
         IN  IF total = 0 THEN One
             ELSE Min1(Max0(Rat(60000 * k - 40 * total, 140 * total)))
    ELSE Zero

\* Math.min(1, Math.max(0, (bpm - 40) / 140)) with bpm = 60000 / avgInterval
Tempo(onsets) ==
    IF Len(onsets) >= 2
    THEN LET total == TotalInterval(onsets, 2)
             k == Len(onsets) - 1
         IN  IF total = 0 THEN One
             ELSE Min1(Max0(Rat(60000 * k - 40 * total, 140 * total)))
    ELSE Zero

\* Onset on the energy rise alone
Onset_RiseOnly(energy, prevE) == RGt(RSub(energy, prevE), Lit(12))

\* if (delta > 0.12 && energy > 0.15) onsetTimes.push(now)
Onset(energy, prevE) == RGt(RSub(energy, prevE), Lit(12)) /\ RGt(energy, Lit(15))

\* getAudioFeatures keeping the caller's buffer itself as prevSpectrum: by
\* the next call the buffer holds that call's frame, so flux is taken of
\* the new frame against itself.
getAudioFeatures_AliasedHistory(st, dataArray, timeDomainArray, t) ==
    LET energy == Energy(dataArray)
        pushed == IF Onset(energy, st.prevEnergy)
                  THEN Append(st.onsetTimes, t) ELSE st.onsetTimes
        onsets == Prune(pushed, t - 3000)
    IN  [features |->
            [energy     |-> energy,
             brightness |-> Brightness(dataArray),
             tempo      |-> Tempo(onsets),
             flux       |-> Flux(IF st.prevSpectrum = Null THEN Null ELSE dataArray,
                                 dataArray),
             spread     |-> Spread(dataArray),
             flatness   |-> Flatness(dataArray),
             bassRatio  |-> BassRatio(dataArray),
             zcr        |-> Zcr(timeDomainArray)],
         state |->
            [prevEnergy   |-> energy,
             prevSpectrum |-> dataArray,
             onsetTimes   |-> onsets]]

(***************************************************************************)
(* getAudioFeatures(dataArray, timeDomainArray) called at clock value t on *)
(* the history st = [prevEnergy, prevSpectrum, onsetTimes]: the returned   *)
(* features and the history it leaves.                                     *)
(***************************************************************************)
getAudioFeatures(st, dataArray, timeDomainArray, t) ==
    LET energy == Energy(dataArray)
        pushed == IF Onset(energy, st.prevEnergy)
                  THEN Append(st.onsetTimes, t) ELSE st.onsetTimes
        onsets == Prune(pushed, t - 3000)
    IN  [features |->
            [energy     |-> energy,
             brightness |-> Brightness(dataArray),
             tempo      |-> Tempo(onsets),
             flux       |-> Flux(st.prevSpectrum, dataArray),
             spread     |-> Spread(dataArray),
             flatness   |-> Flatness(dataArray),
             bassRatio  |-> BassRatio(dataArray),
             zcr        |-> Zcr(timeDomainArray)],
         state |->
            [prevEnergy   |-> energy,
             prevSpectrum |-> dataArray,
             onsetTimes   |-> onsets]]

(***************************************************************************)
(* getMood: the silence gate, the base grid and the six modifier steps.    *)
(***************************************************************************)
\* table[mood] ?? mood
Remap(table, mood) == IF mood \in DOMAIN table THEN table[mood] ELSE mood

loudMap ==
    ("peaceful" :> "uplifting") @@ ("serene" :> "excited") @@
    ("focused" :> "powerful") @@ ("uplifting" :> "excited") @@
    ("melancholic" :> "tense") @@ ("tranquil" :> "peaceful") @@
    ("meditative" :> "serene") @@ ("hopeful" :> "uplifting") @@
    ("somber" :> "melancholic") @@ ("contemplative" :> "focused") @@
    ("brooding" :> "tense") @@ ("heavy" :> "powerful") @@ ("giddy" :> "excited")

quietMap ==
    ("angry" :> "tense") @@ ("powerful" :> "focused") @@
    ("excited" :> "uplifting") @@ ("furious" :> "angry") @@
    ("intense" :> "powerful") @@ ("frantic" :> "tense") @@
    ("driven" :> "focused") @@ ("restless" :> "melancholic") @@
    ("joyful" :> "peaceful") @@ ("playful" :> "peaceful") @@
    ("euphoric" :> "serene")

fastMap ==
    ("melancholic" :> "restless") @@ ("peaceful" :> "playful") @@
    ("serene" :> "joyful") @@ ("tense" :> "frantic") @@
    ("focused" :> "driven") @@ ("uplifting" :> "euphoric") @@
    ("angry" :> "furious") @@ ("powerful" :> "intense") @@
    ("excited" :> "euphoric")

\* slowMap with one target misspelt
slowMap_Misspelt ==
    ("melancholic" :> "somber") @@ ("peaceful" :> "tranquil") @@
    ("serene" :> "meditative") @@ ("tense" :> "brooding") @@
    ("focused" :> "contemplative") @@ ("uplifting" :> "hopeful") @@
    ("angry" :> "smouldering") @@ ("powerful" :> "heavy") @@
    ("excited" :> "giddy")

slowMap ==
    ("melancholic" :> "somber") @@ ("peaceful" :> "tranquil") @@
    ("serene" :> "meditative") @@ ("tense" :> "brooding") @@
    ("focused" :> "contemplative") @@ ("uplifting" :> "hopeful") @@
    ("angry" :> "smoldering") @@ ("powerful" :> "heavy") @@
    ("excited" :> "giddy")

droneMap ==
    ("melancholic" :> "somber") @@ ("peaceful" :> "meditative") @@
    ("serene" :> "meditative") @@ ("tense" :> "brooding") @@
    ("focused" :> "contemplative") @@ ("uplifting" :> "hopeful") @@
    ("angry" :> "smoldering") @@ ("powerful" :> "heavy") @@
    ("excited" :> "giddy") @@ ("restless" :> "brooding") @@
    ("frantic" :> "tense") @@ ("driven" :> "focused") @@
    ("euphoric" :> "serene") @@ ("furious" :> "angry") @@
    ("intense" :> "powerful")

wideMap ==
    ("focused" :> "powerful") @@ ("tense" :> "frantic") @@
    ("uplifting" :> "excited") @@ ("peaceful" :> "uplifting") @@
    ("melancholic" :> "tense") @@ ("contemplative" :> "focused") @@
    ("tranquil" :> "peaceful")

bassMap ==
    ("uplifting" :> "focused") @@ ("excited" :> "powerful") @@
    ("joyful" :> "driven") @@ ("playful" :> "restless") @@
    ("hopeful" :> "contemplative") @@ ("giddy" :> "restless") @@
    ("euphoric" :> "intense") @@ ("serene" :> "peaceful") @@
    ("tranquil" :> "somber")

noisyMap ==
    ("peaceful" :> "restless") @@ ("serene" :> "uplifting") @@
    ("tranquil" :> "peaceful") @@ ("meditative" :> "contemplative") @@
    ("somber" :> "brooding") @@ ("hopeful" :> "focused") @@
    ("contemplative" :> "tense")

\* Base mood from energy x brightness
\* baseMood with the band edges on the lower side (<= for <)
baseMood_ClosedBands(energy, brightness) ==
    IF ~RGt(energy, Lit(35))
    THEN IF ~RGt(brightness, Lit(38)) THEN "melancholic"
         ELSE IF ~RGt(brightness, Lit(65)) THEN "peaceful"
         ELSE "serene"
    ELSE IF ~RGt(energy, Lit(60))
    THEN IF ~RGt(brightness, Lit(38)) THEN "tense"
         ELSE IF ~RGt(brightness, Lit(65)) THEN "focused"
         ELSE "uplifting"
    ELSE IF ~RGt(brightness, Lit(38)) THEN "angry"
         ELSE IF ~RGt(brightness, Lit(65)) THEN "powerful"
         ELSE "excited"

baseMood(energy, brightness) ==
    IF RLt(energy, Lit(35))
    THEN IF RLt(brightness, Lit(38)) THEN "melancholic"
         ELSE IF RLt(brightness, Lit(65)) THEN "peaceful"
         ELSE "serene"
    ELSE IF RLt(energy, Lit(60))
    THEN IF RLt(brightness, Lit(38)) THEN "tense"
         ELSE IF RLt(brightness, Lit(65)) THEN "focused"
         ELSE "uplifting"
    ELSE IF RLt(brightness, Lit(38)) THEN "angry"
         ELSE IF RLt(brightness, Lit(65)) THEN "powerful"
         ELSE "excited"

volumeModifier(mood, energy) ==
    IF RGt(energy, Lit(80)) THEN Remap(loudMap, mood)
    ELSE IF RLt(energy, Lit(22)) THEN Remap(quietMap, mood)
    ELSE mood

\* tempoModifier with both bands closed at their edges (>= 0.65, <= 0.25)
tempoModifier_ClosedEdges(mood, tempo) ==
    IF ~RLt(tempo, Lit(65)) THEN Remap(fastMap, mood)
    ELSE IF RGt(tempo, Zero) /\ ~RGt(tempo, Lit(25)) THEN Remap(slowMap, mood)
    ELSE mood

tempoModifier(mood, tempo) ==
    IF RGt(tempo, Lit(65)) THEN Remap(fastMap, mood)
    ELSE IF RGt(tempo, Zero) /\ RLt(tempo, Lit(25)) THEN Remap(slowMap, mood)
    ELSE mood

fluxModifier(mood, flux, energy) ==
    IF RLt(flux, Lit(5)) /\ RGt(energy, Lit(12)) THEN Remap(droneMap, mood)
    ELSE mood

spreadModifier(mood, spread, energy) ==
    IF RGt(spread, Lit(55)) /\ RGt(energy, Lit(40)) THEN Remap(wideMap, mood)
    ELSE mood

bassModifier(mood, bassRatio, energy) ==
    IF RGt(bassRatio, Lit(30)) /\ RGt(energy, Lit(25)) THEN Remap(bassMap, mood)
    ELSE mood

noiseModifier(mood, flatness, zcr, energy) ==
    IF RGt(flatness, Lit(70)) /\ RGt(zcr, Lit(15)) /\ RGt(energy, Lit(15))
    THEN Remap(noisyMap, mood)
    ELSE mood

\* getMood with the Spread step moved before the Flux step
getMood_SpreadBeforeFlux(energy, brightness, tempo, flux, spread, flatness, bassRatio, zcr) ==
    IF RLt(energy, Lit(5)) THEN "silent"
    ELSE LET m0 == baseMood(energy, brightness)
             m1 == volumeModifier(m0, energy)
             m2 == tempoModifier(m1, tempo)
             m3 == spreadModifier(m2, spread, energy)
             m4 == fluxModifier(m3, flux, energy)
             m5 == bassModifier(m4, bassRatio, energy)
         IN  noiseModifier(m5, flatness, zcr, energy)

\* getMood remembering the last frame: silent also right after a frame of
\* zero energy
getMood_Remembering(energy, brightness, tempo, flux, spread, flatness, bassRatio, zcr) ==
    IF RLt(energy, Lit(5)) \/ IsZero(prevEnergy) THEN "silent"
    ELSE LET m0 == baseMood(energy, brightness)
             m1 == volumeModifier(m0, energy)
             m2 == tempoModifier(m1, tempo)
             m3 == fluxModifier(m2, flux, energy)
             m4 == spreadModifier(m3, spread, energy)
             m5 == bassModifier(m4, bassRatio, energy)
         IN  noiseModifier(m5, flatness, zcr, energy)

\* getMood with the silence gate closed at 0.05 (<= for <)
getMood_ClosedGate(energy, brightness, tempo, flux, spread, flatness, bassRatio, zcr) ==
    IF ~RGt(energy, Lit(5)) THEN "silent"
    ELSE LET m0 == baseMood(energy, brightness)
             m1 == volumeModifier(m0, energy)
             m2 == tempoModifier(m1, tempo)
             m3 == fluxModifier(m2, flux, energy)
             m4 == spreadModifier(m3, spread, energy)
             m5 == bassModifier(m4, bassRatio, energy)
         IN  noiseModifier(m5, flatness, zcr, energy)

\* getMood without its silence gate
getMood_NoSilenceGate(energy, brightness, tempo, flux, spread, flatness, bassRatio, zcr) ==
    LET m0 == baseMood(energy, brightness)
        m1 == volumeModifier(m0, energy)
        m2 == tempoModifier(m1, tempo)
        m3 == fluxModifier(m2, flux, energy)
        m4 == spreadModifier(m3, spread, energy)
        m5 == bassModifier(m4, bassRatio, energy)
    IN  noiseModifier(m5, flatness, zcr, energy)

getMood(energy, brightness, tempo, flux, spread, flatness, bassRatio, zcr) ==
    IF RLt(energy, Lit(5)) THEN "silent"
    ELSE LET m0 == baseMood(energy, brightness)
             m1 == volumeModifier(m0, energy)
             m2 == tempoModifier(m1, tempo)
             m3 == fluxModifier(m2, flux, energy)
             m4 == spreadModifier(m3, spread, energy)
             m5 == bassModifier(m4, bassRatio, energy)
         IN  noiseModifier(m5, flatness, zcr, energy)

(***************************************************************************)
(* MOOD_PALETTE and moodToColor.  A color is the triple of integers that   *)
(* the source interpolates into `hsl(h, s%, l%)`.                          *)
(***************************************************************************)
Entry(h, s, l) == [hue |-> h, saturation |-> s, baseLightness |-> l]

PaletteRows ==
    ("silent" :> Entry(0, 0, 93)) @@ ("melancholic" :> Entry(248, 55, 28)) @@
    ("peaceful" :> Entry(205, 52, 50)) @@ ("serene" :> Entry(175, 58, 58)) @@
    ("tense" :> Entry(22, 78, 36)) @@ ("focused" :> Entry(128, 45, 38)) @@
    ("uplifting" :> Entry(72, 78, 52)) @@ ("angry" :> Entry(348, 85, 40)) @@
    ("powerful" :> Entry(25, 88, 44)) @@ ("excited" :> Entry(48, 95, 56)) @@
    ("restless" :> Entry(35, 82, 45)) @@ ("playful" :> Entry(80, 85, 58)) @@
    ("joyful" :> Entry(55, 90, 62)) @@ ("frantic" :> Entry(10, 92, 42)) @@
    ("driven" :> Entry(150, 65, 42)) @@ ("euphoric" :> Entry(300, 90, 58)) @@
    ("furious" :> Entry(0, 100, 30)) @@ ("intense" :> Entry(20, 95, 38)) @@
    ("somber" :> Entry(230, 60, 20)) @@ ("tranquil" :> Entry(200, 35, 65)) @@
    ("meditative" :> Entry(185, 40, 45)) @@ ("brooding" :> Entry(270, 50, 25)) @@
    ("contemplative" :> Entry(250, 40, 40)) @@ ("hopeful" :> Entry(45, 65, 55)) @@
    ("smoldering" :> Entry(10, 70, 25)) @@ ("heavy" :> Entry(30, 60, 28)) @@
    ("giddy" :> Entry(320, 75, 60))

\* The palette with its last row lost
MOOD_PALETTE_RowLost ==
    [m \in DOMAIN PaletteRows \ {"giddy"} |-> PaletteRows[m]]

MOOD_PALETTE == PaletteRows

\* Truncation in place of Math.round
Round_Truncate(x) == x.n \div x.d

\* Math.round(x) for x = n/d >= 0: floor(x + 0.5)
Round(x) == (2 * x.n + x.d) \div (2 * x.d)

\* Lightness without the -0.5 that centres the energy
Lightness_Uncentred(base, energy) ==
    LET raw == Rat(base.baseLightness * energy.d + 30 * energy.n, energy.d)
    IN  IF RLt(raw, Rat(10, 1)) THEN Rat(10, 1)
        ELSE IF RGt(raw, Rat(85, 1)) THEN Rat(85, 1)
        ELSE raw

\* Math.min(85, Math.max(10, base.baseLightness + (energy - 0.5) * 30))
Lightness(base, energy) ==
    LET raw == Rat(base.baseLightness * energy.d + 30 * energy.n - 15 * energy.d,
                   energy.d)
    IN  IF RLt(raw, Rat(10, 1)) THEN Rat(10, 1)
        ELSE IF RGt(raw, Rat(85, 1)) THEN Rat(85, 1)
        ELSE raw

\* MOOD_PALETTE is an object literal: besides its own keys, a lookup by
\* name finds the members it inherits from Object.prototype.  Such a
\* member is not null or undefined, so ?? keeps it, and it has no hue,
\* saturation or baseLightness.
InheritedNames ==
    {"constructor", "toString", "valueOf", "hasOwnProperty", "__proto__"}

\* What the template literal prints for a missing hue or saturation
\* (undefined) and for the lightness computed from a missing baseLightness
\* (NaN): no number.
NotANumber == -1

moodToColor(mood, energy) ==
    IF mood \notin DOMAIN MOOD_PALETTE /\ mood \in InheritedNames
    THEN [h |-> NotANumber, s |-> NotANumber, l |-> NotANumber]
    ELSE LET base == IF mood \in DOMAIN MOOD_PALETTE
                     THEN MOOD_PALETTE[mood] ELSE MOOD_PALETTE["focused"]
         IN  [h |-> base.hue, s |-> base.saturation,
              l |-> Round(Lightness(base, energy))]

(***************************************************************************)
(* State.                                                                  *)
(***************************************************************************)
VARIABLES
    now,            \* performance.now() at the last call, in ms
    calls,          \* getAudioFeatures calls made
    frame,          \* arguments of the last call: [freq, time]
    features,       \* what the last call returned
    prevFrame,      \* arguments of the call before it
    prevFeatures,   \* what the call before it returned
    onsetLog,       \* every timestamp pushed to _state.onsetTimes so far
    mood,           \* last label of getMood
    color,          \* last color of moodToColor
    pc,             \* position of the pure-function check
    audioContext,   \* TRUE when the AudioContext exists
    analyser,       \* TRUE when non-null
    dataArray,      \* "null", or the analyser it was allocated for
    timeDomainArray, \* "null", or the analyser it was allocated for
    animationFrameId, \* the id of the last frame request, 0 for null
    rafPending,     \* ids of the frame requests not yet run or cancelled
    sourceNode,     \* TRUE when non-null
    bufferSource,   \* "none" (null), "created" or "playing"
    silentGain,     \* TRUE when non-null
    mediaStream,    \* id of the MediaStream it holds, 0 for null
    liveStreams,    \* ids of the acquired streams that still have a live track
    audioTracks,    \* the speaker handler's local audioTracks: id of its stream
    trackOnended,   \* ids of the live streams whose audio track calls stopCapture
    disabled,       \* the disabled flag of the four buttons
    moodDisplay,    \* moodDisplay.textContent
    metricBars,     \* the features the metric bars show
    canvasFill,     \* what the canvas was last filled with
    activeTab,      \* the mode of the tab that has class 'active'
    pending,        \* asynchronous completions in flight
    lastOp          \* the handler that ran last

pipelineVars == <<prevEnergy, prevSpectrum, onsetTimes, now, calls, frame,
                  features, prevFrame, prevFeatures, onsetLog, mood, color,
                  pc>>

driverVars == <<audioContext, analyser, dataArray, timeDomainArray,
                animationFrameId, rafPending, sourceNode, bufferSource, silentGain,
                mediaStream, liveStreams, audioTracks, trackOnended, disabled,
                moodDisplay, metricBars, canvasFill, activeTab, pending, lastOp>>

vars == <<pipelineVars, driverVars>>

history == <<prevEnergy, prevSpectrum, onsetTimes>>

\* Frequency frames and time-domain frames the callers hand over.
Frames == [0 .. NumBins - 1 -> Mags]
TimeFrames == {Null, <<128, 127, 128, 130>>}
NoFrame == [freq |-> Null, time |-> Null]
NoFeatures ==
    [energy |-> Zero, brightness |-> Zero, tempo |-> Zero, flux |-> Zero,
     spread |-> Zero, flatness |-> Zero, bassRatio |-> Zero, zcr |-> Zero]

\* The module-level initialiser of _state.
FreshHistory ==
    /\ prevEnergy = Zero
    /\ prevSpectrum = Null
    /\ onsetTimes = <<>>

\* The page after the script has run: nothing captured, white canvas.  The
\* page's markup is not part of the sources; the buttons start as stopCapture
\* leaves them.
Modes == {"file", "speaker", "mic"}
White == Null
IdleButtons ==
    [speakerStartBtn |-> FALSE, speakerStopBtn |-> TRUE,
     micStartBtn |-> FALSE, micStopBtn |-> TRUE]

Loaded(tab) ==
    /\ audioContext = FALSE
    /\ analyser = FALSE
    /\ dataArray = "null"
    /\ timeDomainArray = "null"
    /\ animationFrameId = 0
    /\ rafPending = {}
    /\ sourceNode = FALSE
    /\ bufferSource = "none"
    /\ silentGain = FALSE
    /\ mediaStream = 0
    /\ liveStreams = {}
    /\ audioTracks = 0
    /\ trackOnended = {}
    /\ disabled = IdleButtons
    /\ moodDisplay = ""
    /\ metricBars = NoFeatures
    /\ canvasFill = White
    /\ activeTab = tab
    /\ pending = {}
    /\ lastOp = "load"

FreshPipeline ==
    /\ FreshHistory
    /\ now = 0
    /\ calls = 0
    /\ frame = NoFrame
    /\ features = NoFeatures
    /\ prevFrame = NoFrame
    /\ prevFeatures = NoFeatures
    /\ onsetLog = <<>>
    /\ mood = ""
    /\ color = Null
    /\ pc = "frames"

Init ==
    /\ FreshPipeline
    /\ Loaded("file")

(***************************************************************************)
(* One frame through the pipeline, as drawVisualization runs it: the call  *)
(* of getAudioFeatures at clock value now + dt, then getMood on the        *)
(* returned features and moodToColor on the label.                         *)
(***************************************************************************)
ProcessFrame(freq, time, dt) ==
    \E r \in {getAudioFeatures(
                 [prevEnergy |-> prevEnergy, prevSpectrum |-> prevSpectrum,
                  onsetTimes |-> onsetTimes], freq, time, now + dt)} :
    \E m \in {getMood(r.features.energy, r.features.brightness,
                      r.features.tempo, r.features.flux, r.features.spread,
                      r.features.flatness, r.features.bassRatio,
                      r.features.zcr)} :
        /\ now' = now + dt
        /\ calls' = calls + 1
        /\ prevEnergy' = r.state.prevEnergy
        /\ prevSpectrum' = r.state.prevSpectrum
        /\ onsetTimes' = r.state.onsetTimes
        /\ prevFrame' = frame
        /\ prevFeatures' = features
        /\ onsetLog' = IF Onset(r.features.energy, prevEnergy)
                       THEN Append(onsetLog, now + dt) ELSE onsetLog
        /\ frame' = [freq |-> freq, time |-> time]
        /\ features' = r.features
        /\ mood' = m
        /\ color' = moodToColor(m, r.features.energy)
        /\ UNCHANGED pc

\* A call of the pipeline on any frame pair, 250 ms after the last one.
DrawFrame ==
    /\ calls < MaxCalls
    /\ \E freq \in Frames, time \in TimeFrames : ProcessFrame(freq, time, 250)
    /\ UNCHANGED driverVars

Next == DrawFrame

Spec == Init /\ [][Next]_vars

(***************************************************************************)
(* SpecTempo: a beat pattern.  The frames alternate freely between silence *)
(* and full scale, without a time-domain frame, and the clock advances by  *)
(* a short, a medium or a long step between calls.                         *)
(***************************************************************************)
BeatFrames == {[i \in 0 .. NumBins - 1 |-> 0], [i \in 0 .. NumBins - 1 |-> 255]}
BeatSteps == {100, 250, 1600}

Beat ==
    /\ calls < MaxBeats
    /\ \E freq \in BeatFrames, dt \in BeatSteps : ProcessFrame(freq, Null, dt)
    /\ UNCHANGED driverVars

NextTempo == Beat

SpecTempo == Init /\ [][NextTempo]_vars

(***************************************************************************)
(* SpecOnset: frames whose energies lie on both sides of the two onset     *)
(* thresholds.  With 3 bins energy is (mag[1] + mag[2]) / 765: the sums    *)
(* 92, 115 and 200 give 0.120.., 0.150.. and 0.261..                       *)
(***************************************************************************)
OnsetFrames ==
    {<<0, 0>>, <<46, 46>>, <<57, 58>>, <<100, 100>>, <<255, 255>>}
OnsetFrame(p) == [i \in 0 .. 2 |-> IF i = 0 THEN 0 ELSE p[i]]
OnsetSteps == {250, 1600}

OnsetCall ==
    /\ calls < MaxOnsetCalls
    /\ \E p \in OnsetFrames, dt \in OnsetSteps : ProcessFrame(OnsetFrame(p), Null, dt)
    /\ UNCHANGED driverVars

NextOnset == OnsetCall

SpecOnset == Init /\ [][NextOnset]_vars

(***************************************************************************)
(* SpecBass: frames of the analyser's real length whose lowest tenth of    *)
(* bins holds one magnitude and whose other bins are 0, processed from a   *)
(* fresh history, with and without a time-domain frame.                    *)
(***************************************************************************)
\* analyser.frequencyBinCount for fftSize = 2048
FrequencyBinCount == 1024
BassMags == {100, 200, 255}
BassFrame(m) ==
    [i \in 0 .. FrequencyBinCount - 1 |->
        IF i < FrequencyBinCount \div 10 THEN m ELSE 0]
BassFrames == {BassFrame(m) : m \in BassMags}

BassCall ==
    /\ calls < MaxBassCalls
    /\ \E freq \in BassFrames, time \in TimeFrames : ProcessFrame(freq, time, 250)
    /\ UNCHANGED driverVars

NextBass == BassCall

SpecBass == Init /\ [][NextBass]_vars

(***************************************************************************)
(* SpecFeatures: getAudioFeatures on one frame pair, from the fresh        *)
(* history.  The frequency frames have 4 bins with magnitudes that differ  *)
(* from bin to bin (powers of 4, so that most geometric means are whole),  *)
(* bin 0 silent or not; the time-domain frames lie around the 128          *)
(* midpoint, and include the empty and the one-sample frame.               *)
(***************************************************************************)
ShapeMags == {0, 1, 4, 16, 64}
ShapePatterns == {0, 9} \X ShapeMags \X ShapeMags \X ShapeMags
ShapeFrame(p) == [i \in 0 .. 3 |-> p[i + 1]]
ShapeTimeFrames ==
    {Null, <<130>>, <<128, 127>>, <<127, 128>>, <<128, 129>>, <<127, 126>>,
     <<128, 128>>, <<0, 255>>, <<127, 128, 127, 128>>, <<128, 127, 128, 130>>,
     <<129, 128, 127, 127, 128>>}
ShapeInputs ==
    {[freq |-> ShapeFrame(p), time |-> Null] : p \in ShapePatterns}
        \cup {[freq |-> ShapeFrame(<<0, 16, 16, 16>>), time |-> t] :
                  t \in ShapeTimeFrames}

FeatureCall ==
    /\ calls = 0
    /\ \E in \in ShapeInputs : ProcessFrame(in.freq, in.time, 250)
    /\ UNCHANGED driverVars

NextFeatures == FeatureCall

SpecFeatures == Init /\ [][NextFeatures]_vars

(***************************************************************************)
(* SpecMood: getMood and moodToColor as pure functions.  A behaviour       *)
(* starts from one input, either an 8-tuple of feature values for getMood  *)
(* (then moodToColor on its label, as drawVisualization chains them) or a  *)
(* label and an energy for a direct call of moodToColor.                   *)
(***************************************************************************)
Hundredths(S) == {Lit(c) : c \in S}

FeatureGrid ==
    [energy     : Hundredths({4, 5, 20, 30, 50, 70, 90}),
     brightness : Hundredths({20, 50, 80}),
     tempo      : Hundredths({0, 10, 50, 80}),
     flux       : Hundredths({0, 50}),
     spread     : Hundredths({30, 70}),
     flatness   : Hundredths({30, 80}),
     bassRatio  : Hundredths({10, 50}),
     zcr        : Hundredths({10, 30})]

\* Inputs on the edges of the bands and of the modifier conditions: the
\* energies and brightnesses at and just below each band edge, and the
\* other features on the closed side of each modifier's threshold.
Millionths(S) == {Rat(c, 1000000) : c \in S}
BandEdgeInputs ==
    [energy     : Hundredths({5, 35, 60, 100}) \cup Millionths({49999, 349999, 599999}),
     brightness : Hundredths({0, 38, 65, 100}) \cup Millionths({379999, 649999}),
     tempo      : {Zero},
     flux       : Hundredths({5, 50}),
     spread     : Hundredths({55}),
     flatness   : Hundredths({70}),
     bassRatio  : Hundredths({30}),
     zcr        : Hundredths({10, 30})]

\* Inputs on and around the edges of the Tempo step's two bands (0, 0.25
\* and 0.65), with the conditions of the later steps off.
TempoEdgeInputs ==
    [energy     : Hundredths({5, 30, 50, 90}),
     brightness : Hundredths({20, 50, 80}),
     tempo      : Hundredths({1, 24, 25, 65, 66, 100})
                      \cup Millionths({249999, 650001}),
     flux       : Hundredths({50}),
     spread     : Hundredths({30}),
     flatness   : Hundredths({30}),
     bassRatio  : Hundredths({10}),
     zcr        : Hundredths({10})]

\* Labels handed to moodToColor directly: every palette key, a name that
\* is no member of the palette at all, and a name it inherits.
Labels == DOMAIN MOOD_PALETTE \cup {"unlisted", "constructor"}
LabelEnergies == Hundredths({0, 4, 25, 50, 75, 97, 100})

InitMood ==
    /\ Loaded("file")
    /\ FreshHistory
    /\ now = 0
    /\ calls = 0
    /\ frame = NoFrame
    /\ prevFrame = NoFrame
    /\ prevFeatures = NoFeatures
    /\ onsetLog = <<>>
    /\ color = Null
    /\ \/ /\ pc = "input"
          /\ features \in FeatureGrid \cup BandEdgeInputs \cup TempoEdgeInputs
          /\ mood = ""
       \/ /\ pc = "label"
          /\ \E e \in LabelEnergies : features = [NoFeatures EXCEPT !.energy = e]
          /\ mood \in Labels

Classify ==
    /\ pc = "input"
    /\ mood' = getMood(features.energy, features.brightness, features.tempo,
                       features.flux, features.spread, features.flatness,
                       features.bassRatio, features.zcr)
    /\ pc' = "classified"
    /\ UNCHANGED <<history, now, calls, frame, features, prevFrame,
                   prevFeatures, onsetLog, color, driverVars>>

MapColor ==
    /\ pc = "classified"
    /\ color' = moodToColor(mood, features.energy)
    /\ pc' = "mapped"
    /\ UNCHANGED <<history, now, calls, frame, features, prevFrame,
                   prevFeatures, onsetLog, mood, driverVars>>

MapLabel ==
    /\ pc = "label"
    /\ color' = moodToColor(mood, features.energy)
    /\ pc' = "colored"
    /\ UNCHANGED <<history, now, calls, frame, features, prevFrame,
                   prevFeatures, onsetLog, mood, driverVars>>

NextMood == Classify \/ MapColor \/ MapLabel

SpecMood == InitMood /\ [][NextMood]_vars

(***************************************************************************)
(* SpecDriver: the capture UI of index.js around the pipeline.  A handler  *)
(* runs to its next await in one step; what it awaits (a permission        *)
(* prompt, the AudioContext, the file reader, the decoder, a stopped       *)
(* source's 'ended' event) stays in pending until it settles.  pending is  *)
(* a set: two completions of the same kind in flight count as one.  The    *)
(* controls of a mode can be clicked while its tab is the active one.      *)
(* A MediaStream is an id; liveStreams holds the acquired streams whose    *)
(* tracks nobody has stopped and which have not ended, whether or not      *)
(* mediaStream still refers to them.                                       *)
(***************************************************************************)
\* What the analyser delivers while a source plays: a full-scale frame.
DriverFrames == {[i \in 0 .. NumBins - 1 |-> 255]}
DriverTime == <<128, 127, 128, 130>>

\* setupAnalyser()
\* setupAnalyser() making a new analyser but allocating a buffer only where
\* there is none: a buffer that exists stays, sized for the analyser before
setupAnalyser_KeepsBuffers ==
    /\ analyser' = TRUE
    /\ dataArray' = IF dataArray = "null" THEN "current" ELSE "older"
    /\ timeDomainArray' = IF timeDomainArray = "null" THEN "current" ELSE "older"

\* A buffer is "current" when it was allocated from the analyser the global
\* holds (new Uint8Array(analyser.frequencyBinCount / analyser.fftSize)) and
\* "older" when from an analyser the global held before.
setupAnalyser ==
    /\ analyser' = TRUE
    /\ dataArray' = "current"
    /\ timeDomainArray' = "current"

\* stopCapture() without the try around bufferSource.stop(): the exception
\* of stopping a source that was never started ends the function there,
\* before anything is assigned.
TearDown_StopUncaught(live) ==
    IF bufferSource = "created"
    THEN UNCHANGED <<bufferSource, sourceNode, silentGain, analyser,
                     mediaStream, liveStreams, trackOnended, rafPending,
                     animationFrameId, dataArray, timeDomainArray, disabled,
                     moodDisplay, canvasFill, metricBars, pipelineVars,
                     audioTracks>>
    ELSE /\ bufferSource' = "none"
         /\ sourceNode' = FALSE
         /\ silentGain' = FALSE
         /\ analyser' = FALSE
         /\ mediaStream' = 0
         /\ liveStreams' = live \ {mediaStream}
         /\ trackOnended' = trackOnended \cap (live \ {mediaStream})
         /\ rafPending' = rafPending \ {animationFrameId}
         /\ animationFrameId' = 0
         /\ dataArray' = "null"
         /\ timeDomainArray' = "null"
         /\ disabled' = IdleButtons
         /\ moodDisplay' = ""
         /\ canvasFill' = White
         /\ metricBars' = NoFeatures
         /\ UNCHANGED <<pipelineVars, audioTracks>>

\* The body of stopCapture(), run when the streams in live still have a
\* live track: it stops the tracks of the stream mediaStream holds, and of
\* no other.
TearDown(live) ==
    /\ bufferSource' = "none"
    /\ sourceNode' = FALSE
    /\ silentGain' = FALSE
    /\ analyser' = FALSE
    /\ mediaStream' = 0
    /\ liveStreams' = live \ {mediaStream}
    /\ trackOnended' = trackOnended \cap (live \ {mediaStream})
    /\ rafPending' = rafPending \ {animationFrameId}
    /\ animationFrameId' = 0
    /\ dataArray' = "null"
    /\ timeDomainArray' = "null"
    /\ disabled' = IdleButtons
    /\ moodDisplay' = ""
    /\ canvasFill' = White
    /\ metricBars' = NoFeatures
    /\ UNCHANGED <<pipelineVars, audioTracks>>

\* stopCapture(): tears the capture down and resets the page; it assigns
\* nothing of _state and leaves the AudioContext open.
stopCapture == TearDown(liveStreams)

\* bufferSource.stop() in stopCapture queues the 'ended' event of a source
\* that was playing; stop() on one never started throws and is swallowed.
StoppedSources == IF bufferSource = "playing" THEN {"file.ended"} ELSE {}

\* The first branch of drawVisualization() resetting the page but asking
\* for the next frame all the same.
DrawStops_KeepsLooping(queue) ==
    /\ rafPending' = queue \cup {animationFrameId}
    /\ UNCHANGED animationFrameId
    /\ canvasFill' = White
    /\ moodDisplay' = ""
    /\ metricBars' = NoFeatures
    /\ UNCHANGED pipelineVars

\* drawVisualization(), first branch: no active source remains.  queue is
\* what is pending when the function runs.
DrawStops(queue) ==
    /\ rafPending' = queue \ {animationFrameId}
    /\ animationFrameId' = 0
    /\ canvasFill' = White
    /\ moodDisplay' = ""
    /\ metricBars' = NoFeatures
    /\ UNCHANGED pipelineVars

\* drawVisualization(), second branch: request the next frame, read the
\* analyser into the buffers, run the pipeline, paint.
DrawRuns(queue) ==
    /\ calls < MaxFrames
    /\ animationFrameId' = calls + 1
    /\ rafPending' = queue \cup {calls + 1}
    /\ \E freq \in DriverFrames : ProcessFrame(freq, DriverTime, 250)
    /\ canvasFill' = color'
    /\ moodDisplay' = mood'
    /\ metricBars' = features'

\* drawVisualization() called by a start handler whatever animationFrameId
StartDrawing_Unguarded == DrawRuns(rafPending)

\* if (!animationFrameId) drawVisualization(), called by a start handler
\* right after it has connected a source to a new analyser.
StartDrawing ==
    IF animationFrameId # 0
    THEN UNCHANGED <<animationFrameId, rafPending, canvasFill, moodDisplay, metricBars,
                     pipelineVars>>
    ELSE DrawRuns(rafPending)

\* The animation-frame callback.
DrawCallback ==
    /\ \E id \in rafPending :
        IF ~analyser \/ (bufferSource = "none" /\ ~sourceNode)
        THEN DrawStops(rafPending \ {id})
        ELSE DrawRuns(rafPending \ {id})
    /\ lastOp' = "draw"
    /\ UNCHANGED <<audioContext, analyser, dataArray, timeDomainArray,
                   sourceNode, bufferSource, silentGain, mediaStream, liveStreams, audioTracks,
                   trackOnended, disabled, activeTab, pending>>

\* Click on a tab that is not the active one.
TabClick ==
    \E mode \in Modes \ {activeTab} :
        /\ stopCapture
        /\ activeTab' = mode
        /\ pending' = pending \cup StoppedSources
        /\ lastOp' = "tabClick"
        /\ UNCHANGED audioContext

\* speakerStopBtn / micStopBtn click: stopCapture is the handler.
SpeakerStopClick ==
    /\ activeTab = "speaker"
    /\ ~disabled.speakerStopBtn
    /\ stopCapture
    /\ pending' = pending \cup StoppedSources
    /\ lastOp' = "stopClick"
    /\ UNCHANGED <<audioContext, activeTab>>

MicStopClick ==
    /\ activeTab = "mic"
    /\ ~disabled.micStopBtn
    /\ stopCapture
    /\ pending' = pending \cup StoppedSources
    /\ lastOp' = "stopClick"
    /\ UNCHANGED <<audioContext, activeTab>>

\* The audio track of a stream ends (sharing stopped, device unplugged)
\* and its onended handler is stopCapture.
TrackEnded ==
    /\ \E stream \in trackOnended : TearDown(liveStreams \ {stream})
    /\ pending' = pending \cup StoppedSources
    /\ lastOp' = "trackEnded"
    /\ UNCHANGED <<audioContext, activeTab>>

\* The audio track of a stream ends before a handler has set its onended.
TrackEndedUnheard ==
    /\ \E stream \in liveStreams \ trackOnended :
           liveStreams' = liveStreams \ {stream}
    /\ lastOp' = "trackEndedUnheard"
    /\ UNCHANGED <<pipelineVars, audioContext, analyser, dataArray,
                   timeDomainArray, animationFrameId, rafPending, sourceNode,
                   bufferSource, silentGain, mediaStream, audioTracks,
                   trackOnended, disabled, moodDisplay, metricBars,
                   canvasFill, activeTab, pending>>

\* Ids for a stream the browser hands out: those no live stream and no
\* variable holds.
FreeStreams == (1 .. MaxStreams) \ (liveStreams \cup {mediaStream, audioTracks})
NewStream == CHOOSE id \in FreeStreams : \A other \in FreeStreams : id <= other

\* micStartBtn click, up to await getUserMedia.
MicStartClick ==
    /\ activeTab = "mic"
    /\ ~disabled.micStartBtn
    /\ stopCapture
    /\ pending' = pending \cup StoppedSources \cup {"mic.stream"}
    /\ lastOp' = "micStart"
    /\ UNCHANGED <<audioContext, activeTab>>

\* getUserMedia resolves: the stream is stored, ensureAudioContext creates
\* the context if there is none and is awaited.
MicStreamGranted ==
    /\ "mic.stream" \in pending
    /\ FreeStreams # {}
    /\ mediaStream' = NewStream
    /\ liveStreams' = liveStreams \cup {NewStream}
    /\ audioContext' = TRUE
    /\ pending' = (pending \ {"mic.stream"}) \cup {"mic.context"}
    /\ lastOp' = "micStream"
    /\ UNCHANGED <<pipelineVars, audioTracks, trackOnended, analyser, dataArray, timeDomainArray,
                   animationFrameId, rafPending, sourceNode, bufferSource, silentGain,
                   disabled, moodDisplay, metricBars, canvasFill, activeTab>>

\* getUserMedia rejects: the catch block changes no state.
MicStreamDenied ==
    /\ "mic.stream" \in pending
    /\ pending' = pending \ {"mic.stream"}
    /\ lastOp' = "micDenied"
    /\ UNCHANGED <<pipelineVars, audioContext, analyser, dataArray,
                   timeDomainArray, animationFrameId, rafPending, sourceNode,
                   bufferSource, silentGain, mediaStream, liveStreams, audioTracks, trackOnended,
                   disabled, moodDisplay, metricBars, canvasFill, activeTab>>

\* The rest of the mic handler.  createMediaStreamSource(null) throws when
\* a stopCapture has cleared mediaStream meanwhile; the catch block leaves
\* the analyser that setupAnalyser has just made.
MicContextReady ==
    /\ "mic.context" \in pending
    /\ pending' = pending \ {"mic.context"}
    /\ setupAnalyser
    /\ IF mediaStream # 0
       THEN /\ sourceNode' = TRUE
            /\ silentGain' = TRUE
            /\ trackOnended' = trackOnended \cup ({mediaStream} \cap liveStreams)
            /\ disabled' = [disabled EXCEPT !.micStartBtn = TRUE,
                                            !.micStopBtn = FALSE]
            /\ StartDrawing
       ELSE UNCHANGED <<sourceNode, silentGain, trackOnended, disabled,
                        animationFrameId, rafPending, canvasFill, moodDisplay, metricBars,
                        pipelineVars>>
    /\ lastOp' = "micContext"
    /\ UNCHANGED <<audioContext, bufferSource, mediaStream, liveStreams, audioTracks, activeTab>>

\* speakerStartBtn click, up to await getDisplayMedia.
SpeakerStartClick ==
    /\ activeTab = "speaker"
    /\ ~disabled.speakerStartBtn
    /\ stopCapture
    /\ pending' = pending \cup StoppedSources \cup {"speaker.stream"}
    /\ lastOp' = "speakerStart"
    /\ UNCHANGED <<audioContext, activeTab>>

\* getDisplayMedia resolves with an audio track.
SpeakerStreamGranted ==
    /\ "speaker.stream" \in pending
    /\ FreeStreams # {}
    /\ mediaStream' = NewStream
    /\ liveStreams' = liveStreams \cup {NewStream}
    /\ audioTracks' = NewStream
    /\ audioContext' = TRUE
    /\ pending' = (pending \ {"speaker.stream"}) \cup {"speaker.context"}
    /\ lastOp' = "speakerStream"
    /\ UNCHANGED <<pipelineVars, trackOnended, analyser, dataArray, timeDomainArray,
                   animationFrameId, rafPending, sourceNode, bufferSource, silentGain,
                   disabled, moodDisplay, metricBars, canvasFill, activeTab>>

\* getDisplayMedia resolves without an audio track: the new stream is
\* stored, stopped, and mediaStream set back to null.
SpeakerStreamNoAudio ==
    /\ "speaker.stream" \in pending
    /\ mediaStream' = 0
    /\ pending' = pending \ {"speaker.stream"}
    /\ lastOp' = "speakerNoAudio"
    /\ UNCHANGED <<pipelineVars, liveStreams, audioTracks, trackOnended, audioContext, analyser, dataArray,
                   timeDomainArray, animationFrameId, rafPending, sourceNode,
                   bufferSource, silentGain, disabled, moodDisplay, metricBars,
                   canvasFill, activeTab>>

\* getDisplayMedia rejects.
SpeakerStreamDenied ==
    /\ "speaker.stream" \in pending
    /\ pending' = pending \ {"speaker.stream"}
    /\ lastOp' = "speakerDenied"
    /\ UNCHANGED <<pipelineVars, audioContext, analyser, dataArray,
                   timeDomainArray, animationFrameId, rafPending, sourceNode,
                   bufferSource, silentGain, mediaStream, liveStreams, audioTracks, trackOnended,
                   disabled, moodDisplay, metricBars, canvasFill, activeTab>>

\* The rest of the speaker handler.
SpeakerContextReady ==
    /\ "speaker.context" \in pending
    /\ pending' = pending \ {"speaker.context"}
    /\ setupAnalyser
    /\ IF mediaStream # 0
       THEN /\ sourceNode' = TRUE
            /\ trackOnended' = trackOnended \cup ({audioTracks} \cap liveStreams)
            /\ disabled' = [disabled EXCEPT !.speakerStartBtn = TRUE,
                                            !.speakerStopBtn = FALSE]
            /\ StartDrawing
       ELSE UNCHANGED <<sourceNode, trackOnended, disabled,
                        animationFrameId, rafPending, canvasFill, moodDisplay, metricBars,
                        pipelineVars>>
    /\ audioTracks' = 0
    /\ lastOp' = "speakerContext"
    /\ UNCHANGED <<audioContext, bufferSource, silentGain, mediaStream,
                   liveStreams, activeTab>>

\* A file is chosen: stopCapture, then ensureAudioContext up to its await.
FileChange ==
    /\ activeTab = "file"
    /\ stopCapture
    /\ audioContext' = TRUE
    /\ pending' = pending \cup StoppedSources \cup {"file.context"}
    /\ lastOp' = "fileChange"
    /\ UNCHANGED activeTab

\* setupAnalyser and reader.readAsArrayBuffer(file).
FileContextReady ==
    /\ "file.context" \in pending
    /\ pending' = (pending \ {"file.context"}) \cup {"file.read"}
    /\ setupAnalyser
    /\ lastOp' = "fileContext"
    /\ UNCHANGED <<pipelineVars, audioContext, animationFrameId, rafPending, sourceNode,
                   bufferSource, silentGain, mediaStream, liveStreams, audioTracks, trackOnended,
                   disabled, moodDisplay, metricBars, canvasFill, activeTab>>

\* reader.onload, up to await decodeAudioData.
FileLoaded ==
    /\ "file.read" \in pending
    /\ pending' = (pending \ {"file.read"}) \cup {"file.decode"}
    /\ lastOp' = "fileLoaded"
    /\ UNCHANGED <<pipelineVars, audioContext, analyser, dataArray,
                   timeDomainArray, animationFrameId, rafPending, sourceNode,
                   bufferSource, silentGain, mediaStream, liveStreams, audioTracks, trackOnended,
                   disabled, moodDisplay, metricBars, canvasFill, activeTab>>

\* reader.onerror, or decodeAudioData rejects: an alert, no state change.
FileFailed ==
    /\ \E p \in {"file.read", "file.decode"} :
        /\ p \in pending
        /\ pending' = pending \ {p}
    /\ lastOp' = "fileFailed"
    /\ UNCHANGED <<pipelineVars, audioContext, analyser, dataArray,
                   timeDomainArray, animationFrameId, rafPending, sourceNode,
                   bufferSource, silentGain, mediaStream, liveStreams, audioTracks, trackOnended,
                   disabled, moodDisplay, metricBars, canvasFill, activeTab>>

\* The rest of reader.onload.  bufferSource.connect(null) throws when a
\* stopCapture has cleared the analyser meanwhile: the source stays
\* created and is never started.
FileDecoded ==
    /\ "file.decode" \in pending
    /\ pending' = pending \ {"file.decode"}
    /\ IF analyser
       THEN /\ bufferSource' = "playing"
            /\ StartDrawing
       ELSE /\ bufferSource' = "created"
            /\ UNCHANGED <<animationFrameId, rafPending, canvasFill, moodDisplay, metricBars,
                           pipelineVars>>
    /\ lastOp' = "fileDecoded"
    /\ UNCHANGED <<audioContext, analyser, dataArray, timeDomainArray,
                   sourceNode, silentGain, mediaStream, liveStreams, audioTracks, trackOnended,
                   disabled, activeTab>>

\* bufferSource.onended when playback reaches the end of the file.
PlaybackEnded ==
    /\ bufferSource = "playing"
    /\ bufferSource' = "none"
    /\ lastOp' = "ended"
    /\ UNCHANGED <<pipelineVars, audioContext, analyser, dataArray,
                   timeDomainArray, animationFrameId, rafPending, sourceNode, silentGain,
                   mediaStream, liveStreams, audioTracks, trackOnended, disabled, moodDisplay, metricBars,
                   canvasFill, activeTab, pending>>

\* bufferSource.onended of a source stopped by stopCapture: the handler
\* clears whatever the global bufferSource holds by then.
StoppedSourceEnded ==
    /\ "file.ended" \in pending
    /\ pending' = pending \ {"file.ended"}
    /\ bufferSource' = "none"
    /\ lastOp' = "ended"
    /\ UNCHANGED <<pipelineVars, audioContext, analyser, dataArray,
                   timeDomainArray, animationFrameId, rafPending, sourceNode, silentGain,
                   mediaStream, liveStreams, audioTracks, trackOnended, disabled, moodDisplay, metricBars,
                   canvasFill, activeTab>>

InitDriver ==
    /\ FreshPipeline
    /\ \E tab \in Modes : Loaded(tab)

NextDriver ==
    \/ DrawCallback
    \/ TabClick
    \/ SpeakerStopClick
    \/ MicStopClick
    \/ TrackEnded
    \/ TrackEndedUnheard
    \/ MicStartClick
    \/ MicStreamGranted
    \/ MicStreamDenied
    \/ MicContextReady
    \/ SpeakerStartClick
    \/ SpeakerStreamGranted
    \/ SpeakerStreamNoAudio
    \/ SpeakerStreamDenied
    \/ SpeakerContextReady
    \/ FileChange
    \/ FileContextReady
    \/ FileLoaded
    \/ FileFailed
    \/ FileDecoded
    \/ PlaybackEnded
    \/ StoppedSourceEnded

SpecDriver == InitDriver /\ [][NextDriver]_vars

(***************************************************************************)
(* Claims on the frame pipeline (specification Spec).                      *)
(***************************************************************************)

\* C1: after any sequence of getAudioFeatures calls, each of the eight
\* returned features lies in [0,1].  Stated as the claim states it; flux is
\* the field that leaves the range.
C1_FeaturesInUnitRange ==
    calls > 0 =>
        /\ InUnit(features.energy)
        /\ InUnit(features.brightness)
        /\ InUnit(features.tempo)
        /\ InUnit(features.flux)
        /\ InUnit(features.spread)
        /\ InUnit(features.flatness)
        /\ InUnit(features.bassRatio)
        /\ InUnit(features.zcr)

AllZero(f) == \A i \in DOMAIN f : f[i] = 0

\* hsl(h, s%, l%) with h in [0,360) and s, l in [0,100]
ValidColor(c) ==
    /\ c.h \in 0 .. 359
    /\ c.s \in 0 .. 100
    /\ c.l \in 0 .. 100

\* C8: for an all-zero frequency frame, in any history state, the call
\* returns energy = brightness = flatness = bassRatio = 0, getMood on the
\* returned features is 'silent' and moodToColor gives a valid HSL color.
C8_ZeroFrameDefaults ==
    (calls > 0 /\ AllZero(frame.freq)) =>
        /\ IsZero(features.energy)
        /\ IsZero(features.brightness)
        /\ IsZero(features.flatness)
        /\ IsZero(features.bassRatio)
        /\ mood = "silent"
        /\ ValidColor(color)

\* C8 witness: an all-zero frame processed on a history that holds a
\* non-zero previous frame and a recorded onset.
C8_Witness ==
    /\ calls >= 2
    /\ AllZero(frame.freq)
    /\ ~AllZero(prevFrame.freq)
    /\ onsetTimes # <<>>
    /\ mood = "silent"
    /\ color = [h |-> 0, s |-> 0, l |-> 78]

\* C9: two calls in a row with the identical non-zero frequency frame and
\* no time frame: the second returns flux = 0, and energy and brightness
\* are the same on both, whatever the history before the first call.
C9_SteadyFrame ==
    (/\ calls >= 2
     /\ frame.freq = prevFrame.freq
     /\ ~AllZero(frame.freq)
     /\ frame.time = Null
     /\ prevFrame.time = Null) =>
        /\ IsZero(features.flux)
        /\ features.energy = prevFeatures.energy
        /\ features.brightness = prevFeatures.brightness

\* C9 witness: the pair of identical calls follows a call on another frame,
\* so the first of the pair ran on a used history (it saw flux > 0).
C9_Witness ==
    /\ calls = 3
    /\ frame.freq = prevFrame.freq
    /\ frame.time = Null
    /\ prevFrame.time = Null
    /\ ~IsZero(prevFeatures.flux)
    /\ ~IsZero(features.energy)
    /\ IsZero(features.flux)

Rises(f, g) ==
    LET up(i) == IF f[i] > g[i] THEN f[i] - g[i] ELSE 0
        RECURSIVE upTo(_)
        upTo(i) == IF i < 0 THEN 0 ELSE up(i) + upTo(i - 1)
    IN  upTo(Len0(f) - 1)

\* C18: flux is 0 on the first call of a fresh history; every call, the
\* first and those of zero amplitude included, leaves the frame it
\* processed as prevSpectrum; and each later call's flux is taken against
\* exactly the frame of the call before it, whatever the buffer has held
\* since (0 when the frame's amplitude is 0).
C18_FluxAgainstPrecedingFrame ==
    /\ calls = 1 => IsZero(features.flux)
    /\ calls >= 1 => prevSpectrum = frame.freq
    /\ calls >= 2 =>
           IF TotalAmplitude(frame.freq) > 0
           THEN features.flux.n * TotalAmplitude(frame.freq)
                    = Rises(frame.freq, prevFrame.freq) * features.flux.d
           ELSE IsZero(features.flux)

\* C18 witness: a frame processed after a frame of zero amplitude has its
\* flux taken against that all-zero frame.
C18_Witness ==
    /\ calls = 2
    /\ AllZero(prevFrame.freq)
    /\ frame.freq = [i \in 0 .. NumBins - 1 |-> IF i = 1 THEN 255 ELSE 0]
    /\ features.flux.n = features.flux.d
    /\ prevSpectrum = frame.freq

\* C20: energy is the mean of the magnitudes of bins 1..N-1 divided by
\* 255, (sum of mag[i] for i = 1..N-1) / ((N-1) * 255); a frame with every
\* bin at 255 has energy exactly 1.
C20_EnergyIsMeanOfUpperBins ==
    calls >= 1 =>
        LET N == Len0(frame.freq)
        IN  /\ features.energy.n * ((N - 1) * 255)
                   = TotalAmplitude(frame.freq) * features.energy.d
            /\ (\A i \in 0 .. N - 1 : frame.freq[i] = 255) =>
                   features.energy.n = features.energy.d

\* C21: bassRatio is the fraction of the frame's total amplitude that lies
\* in the lowest max(1, floor(0.10*N)) bins, numerator and denominator
\* taken over the same frame: 1 for a frame whose amplitude lies entirely
\* inside the bass bins, 0 for a frame with none there.
C21_BassFractionOfFrame ==
    calls >= 1 =>
        LET N        == Len0(frame.freq)
            bassBins == 0 .. BassEnd(frame.freq) - 1
            bass     == SumBins(frame.freq, 0, BassEnd(frame.freq))
            whole    == SumBins(frame.freq, 0, N)
        IN  /\ whole > 0 => features.bassRatio.n * whole = bass * features.bassRatio.d
            /\ (whole > 0 /\ \A i \in (0 .. N - 1) \ bassBins : frame.freq[i] = 0)
                   => features.bassRatio.n = features.bassRatio.d
            /\ (\A i \in bassBins : frame.freq[i] = 0) => IsZero(features.bassRatio)

\* Values a frame's bin 0 is replaced with.
BinZeroValues == {0, 1, 128, 255}

\* C33: bin 0 does not interfere: a frame that differs from the processed
\* one only in bin 0, processed from the same history at the same time,
\* yields the same energy, brightness, spread, flatness and tempo (and
\* leaves the same prevEnergy and onset list); and a frame whose only
\* non-zero bin is bin 0 yields energy 0 and the mood 'silent'.
C33_BinZeroNonInterference ==
    [][calls' = calls + 1 =>
         /\ \A v \in BinZeroValues :
                LET other == [frame'.freq EXCEPT ![0] = v]
                    r == getAudioFeatures(
                             [prevEnergy |-> prevEnergy,
                              prevSpectrum |-> prevSpectrum,
                              onsetTimes |-> onsetTimes],
                             other, frame'.time, now')
                IN  /\ Norm(r.features.energy) = Norm(features'.energy)
                    /\ Norm(r.features.brightness) = Norm(features'.brightness)
                    /\ Norm(r.features.spread) = Norm(features'.spread)
                    /\ Norm(r.features.flatness) = Norm(features'.flatness)
                    /\ Norm(r.features.tempo) = Norm(features'.tempo)
                    /\ Norm(r.state.prevEnergy) = Norm(prevEnergy')
                    /\ r.state.onsetTimes = onsetTimes'
         /\ (\A i \in 1 .. Len0(frame'.freq) - 1 : frame'.freq[i] = 0)
                => /\ IsZero(features'.energy)
                   /\ mood' = "silent"]_vars

\* C33 witness: after a frame holding bin 0 alone was classified silent, a
\* full-scale frame is processed: bin 0 shows in bassRatio (1/2, where the
\* frame with bin 0 at 0 has bassRatio 0) and energy is that of bins 1 and
\* up alone.
C33_Witness ==
    /\ calls = 3
    /\ prevFrame.freq = [i \in 0 .. NumBins - 1 |-> IF i = 0 THEN 255 ELSE 0]
    /\ prevFeatures.energy = Zero
    /\ frame.freq = [i \in 0 .. NumBins - 1 |-> 255]
    /\ REq(features.energy, Rat(NumBins - 1, NumBins))
    /\ REq(features.bassRatio, Rat(1, NumBins - 1))
    /\ mood # "silent"

(***************************************************************************)
(* Claims on the onset pattern (specification SpecOnset).                  *)
(***************************************************************************)
\* energy - prevEnergy > 0.12 and energy > 0.15, on the quotients n/d
RiseAndLevel(e, prevE) ==
    /\ 100 * (e.n * prevE.d - prevE.n * e.d) > 12 * e.d * prevE.d
    /\ 100 * e.n > 15 * e.d

\* C15: a call appends its timestamp to the onset list exactly when
\* energy - prevEnergy > 0.12 and energy > 0.15, at most once, and after
\* every call prevEnergy is the energy of the frame just processed.
C15_OnsetDetection ==
    [][calls' = calls + 1 =>
         LET kept == Prune(onsetTimes, now' - 3000)
         IN  /\ prevEnergy' = features'.energy
             /\ IF RiseAndLevel(features'.energy, prevEnergy)
                THEN onsetTimes' = Append(kept, now')
                ELSE onsetTimes' = kept]_vars

\* C15 witness: a rise above 0.12 to an energy below 0.15 recorded no onset
\* and still replaced prevEnergy.
C15_Witness ==
    /\ calls = 2
    /\ IsZero(prevFeatures.energy)
    /\ features.energy = Rat(92, 765)
    /\ onsetTimes = <<>>
    /\ prevEnergy = Rat(92, 765)

(***************************************************************************)
(* Claims on single frames (specification SpecFeatures).                   *)
(***************************************************************************)
\* The bins 1..N-1 of f that hold a positive magnitude.
PositiveBins(f) == {i \in 1 .. Len0(f) - 1 : f[i] > 0}

\* C22: flatness is min(1, G/A), G the geometric mean and A the arithmetic
\* mean of the strictly positive magnitudes only (A = their sum divided by
\* their number), and 0 when all magnitudes are zero.
C22_FlatnessOverPositiveBins ==
    calls >= 1 =>
        LET k     == Cardinality(PositiveBins(frame.freq))
            total == TotalAmplitude(frame.freq)
        IN  IF k = 0 THEN IsZero(features.flatness)
            ELSE REq(features.flatness,
                     Min1(Rat(GeometricMean4(frame.freq) * k, 4 * total)))

\* C23: brightness is (sum of log2(i)*mag[i]) / (sum of mag[i]) over bins
\* 1..N-1, divided by log2(N), and 0 when that amplitude sum is 0; a frame
\* whose only non-zero bin among 1..N-1 is k has brightness
\* log2(k)/log2(N) whatever the magnitude.
C23_LogCentroid ==
    calls >= 1 =>
        LET f     == frame.freq
            N     == Len0(f)
            RECURSIVE logSum(_), ampSum(_)
            logSum(i) == IF i >= N THEN 0 ELSE Log2(i) * f[i] + logSum(i + 1)
            ampSum(i) == IF i >= N THEN 0 ELSE f[i] + ampSum(i + 1)
        IN  /\ ampSum(1) = 0 => IsZero(features.brightness)
            /\ ampSum(1) > 0 =>
                   features.brightness.n * (ampSum(1) * Log2(N))
                       = logSum(1) * features.brightness.d
            /\ \A k \in PositiveBins(f) :
                   PositiveBins(f) = {k} =>
                       REq(features.brightness, Rat(Log2(k), Log2(N)))

\* C23 witness: bin 2 of 4 alone, at magnitude 16 and at magnitude 64 the
\* same brightness log2(2)/log2(4) = 1/2.
C23_Witness ==
    /\ calls = 1
    /\ frame.freq \in {ShapeFrame(<<9, 0, 16, 0>>), ShapeFrame(<<0, 0, 64, 0>>)}
    /\ REq(features.brightness, Rat(1, 2))

\* Whether a time-domain sample lies at or above the 128 midpoint.
NonNegative(sample) == sample >= 128

\* C24: zcr is 0 when the time-domain frame is omitted or has fewer than 2
\* samples; otherwise it is the number of adjacent sample pairs that lie
\* on opposite sides of the 128 midpoint (128 itself non-negative) divided
\* by timeFrame.length - 1.
C24_ZeroCrossingRate ==
    calls >= 1 =>
        LET t == frame.time
            opposite == {i \in 1 .. Len(t) - 1 :
                            NonNegative(t[i]) # NonNegative(t[i + 1])}
        IN  IF Len(t) < 2 THEN IsZero(features.zcr)
            ELSE features.zcr.n * (Len(t) - 1)
                     = Cardinality(opposite) * features.zcr.d

\* C24 witness: the frame 129, 128, 127, 127, 128 has two crossings in four
\* pairs (128 -> 127 and 127 -> 128), none between 129 and 128.
C24_Witness ==
    /\ calls = 1
    /\ frame.time = <<129, 128, 127, 127, 128>>
    /\ features.zcr = Rat(2, 4)

(***************************************************************************)
(* Claims on the bass scenario (specification SpecBass).                   *)
(***************************************************************************)
\* The frame of the scenario was the last one processed.
BassScenarioProcessed == calls > 0 /\ frame.freq = BassFrame(200)

\* C11 as stated: for the 1024-bin frame whose lowest 10% of bins are at
\* 200 and whose other bins are 0, bassRatio > 0.9, brightness < 0.1 and
\* the mood is one of the bass column (angry, tense, melancholic).
C11_BassScenarioDark ==
    BassScenarioProcessed =>
        /\ RGt(features.bassRatio, Lit(90))
        /\ RLt(features.brightness, Lit(10))
        /\ mood \in {"angry", "tense", "melancholic"}

\* C11 amended: for that frame bassRatio > 0.9, but brightness, a centroid
\* on the log2 scale, lies in the mid band [0.38, 0.65), energy is in the
\* low band (below 0.35, at any magnitude of the bass bins) and the mood
\* is 'peaceful', on a fresh history and after other frames of that shape.
C11_BassScenarioPeaceful ==
    /\ BassScenarioProcessed =>
           /\ RGt(features.bassRatio, Lit(90))
           /\ ~RLt(features.brightness, Lit(38))
           /\ RLt(features.brightness, Lit(65))
           /\ mood = "peaceful"
    /\ calls > 0 => RLt(features.energy, Lit(35))

\* C11 witness: the scenario's frame processed first, on the fresh history.
C11_Witness ==
    /\ calls = 1
    /\ frame.freq = BassFrame(200)
    /\ features.bassRatio = One
    /\ features.energy = Rat(505, 6528)
    /\ mood = "peaceful"

(***************************************************************************)
(* Claims on the beat pattern (specification SpecTempo).                   *)
(***************************************************************************)

\* The claim's formula for tempo, from the first and last onset of the list.
ClaimedTempo(onsets) ==
    IF Len(onsets) < 2 THEN Zero
    ELSE LET k == Len(onsets) - 1
             span == onsets[Len(onsets)] - onsets[1]
         IN  IF 60000 * k <= 40 * span THEN Zero
             ELSE IF 60000 * k >= 180 * span THEN One
             ELSE Norm(Rat(60000 * k - 40 * span, 140 * span))

\* C10: tempo is a function of the pruned onset list only: 0 with fewer
\* than 2 onsets in the 3000 ms window, else clamp((60000/avg - 40)/140, 0, 1)
\* with avg the mean gap between consecutive onsets; two onsets 500 ms apart
\* give (120-40)/140, BPM <= 40 gives 0 and BPM >= 180 gives 1.
C10_TempoFromOnsets ==
    calls > 0 =>
        /\ \A i \in 1 .. Len(onsetTimes) : onsetTimes[i] >= now - 3000
        /\ Norm(features.tempo) = ClaimedTempo(onsetTimes)
        /\ (Len(onsetTimes) = 2 /\ onsetTimes[2] - onsetTimes[1] = 500)
               => Norm(features.tempo) = Rat(4, 7)

\* C10 witness: two onsets 500 ms apart, tempo (120-40)/140.
C10_Witness ==
    /\ Len(onsetTimes) = 2
    /\ onsetTimes[2] - onsetTimes[1] = 500
    /\ Norm(features.tempo) = Rat(4, 7)

Ascending(s) == \A i \in 1 .. Len(s) - 1 : s[i] <= s[i + 1]
\* t is s without some of its first entries
IsTailOf(t, s) == \E k \in 0 .. Len(s) : t = SubSeq(s, k + 1, Len(s))
\* the list without the entry a call at time t appended, if it appended one
BeforeAppend(s, t) ==
    IF Len(s) > 0 /\ s[Len(s)] = t THEN SubSeq(s, 1, Len(s) - 1) ELSE s

\* C16: after every call the onset list is sorted ascending and holds no
\* timestamp older than the call's now - 3000 ms, and what the call kept of
\* the old list is the old list without some of its oldest entries.
C16_OnsetWindow ==
    [][calls' = calls + 1 =>
         /\ Ascending(onsetTimes')
         /\ \A i \in 1 .. Len(onsetTimes') : onsetTimes'[i] >= now' - 3000
         /\ IsTailOf(BeforeAppend(onsetTimes', now'), onsetTimes)]_vars

\* C16 witness: the call before held two onsets (its tempo was not 0) and
\* this call, more than 3000 ms after both, has pruned them.
C16_Witness ==
    /\ calls = 5
    /\ now = 3500
    /\ ~IsZero(prevFeatures.tempo)
    /\ onsetTimes = <<>>

\* The quiet spans of the behaviour so far: the onsets of the log after which
\* more than 3000 ms passed before the next onset, or have passed by the
\* last call when no onset followed.
QuietAfter(k) ==
    (IF k < Len(onsetLog) THEN onsetLog[k + 1] ELSE now) - onsetLog[k] > 3000

\* C32: tempo decays to zero: once more than 3000 ms have passed in which
\* no call recorded an onset, every onset from before that span is pruned,
\* and tempo is 0 on every later call until two new onsets have been
\* recorded.
C32_TempoDecays ==
    calls > 0 =>
        \A k \in 1 .. Len(onsetLog) :
            QuietAfter(k) =>
                /\ \A i \in 1 .. Len(onsetTimes) : onsetTimes[i] > onsetLog[k]
                /\ Len(onsetLog) - k < 2 => IsZero(features.tempo)
                /\ Len(onsetLog) = k => onsetTimes = <<>>

\* C32 witness: two onsets gave a tempo above 0, a span of more than 3000
\* ms without onset followed, and one new onset has been recorded since:
\* the list holds the new onset only and tempo is 0.
C32_Witness ==
    /\ Len(onsetLog) = 3
    /\ onsetLog[2] - onsetLog[1] < 1500
    /\ QuietAfter(2)
    /\ onsetTimes = <<onsetLog[3]>>
    /\ IsZero(features.tempo)

(***************************************************************************)
(* Claims on getMood and moodToColor (specification SpecMood).             *)
(***************************************************************************)
Vocabulary == DOMAIN MOOD_PALETTE

\* C3 as stated: for every mood of the vocabulary, 'silent' included,
\* moodToColor(mood, 0.5) has the mood's baseLightness as its lightness.
C3_LightnessIsBaseForAll ==
    (pc = "colored" /\ features.energy = Lit(50) /\ mood \in Vocabulary) =>
        color.l = MOOD_PALETTE[mood].baseLightness

\* C3 amended: moodToColor(mood, 0.5) has the mood's baseLightness as its
\* lightness for every mood of the vocabulary except 'silent', whose
\* baseLightness 93 is clamped to 85.
C3_LightnessIsBaseUnlessSilent ==
    (pc = "colored" /\ features.energy = Lit(50) /\ mood \in Vocabulary) =>
        color.l = IF mood = "silent" THEN 85
                  ELSE MOOD_PALETTE[mood].baseLightness

\* C3 witness: moodToColor('giddy', 0.5) returned lightness 60.
C3_Witness ==
    /\ pc = "colored"
    /\ features.energy = Lit(50)
    /\ mood = "giddy"
    /\ color = [h |-> 320, s |-> 75, l |-> 60]

\* The lightness in hundredths of a percent before rounding, for an energy
\* of e100 hundredths: base + (e100/100 - 0.5) * 30, kept within 10 .. 85.
ClampedLightness100(baseLightness, e100) ==
    LET raw == 100 * baseLightness + 30 * e100 - 1500
    IN  IF raw < 1000 THEN 1000 ELSE IF raw > 8500 THEN 8500 ELSE raw

\* C19: for every palette mood and every energy in [0,1], moodToColor
\* returns the palette entry's hue and saturation unchanged and the
\* lightness clamp(baseLightness + (energy - 0.5)*30, 10, 85) rounded to
\* the nearest integer (halves upward); the result has H in [0,360), S in
\* [0,100] and L in [10,85].
C19_ColorFromPalette ==
    (pc = "colored" /\ mood \in Vocabulary) =>
        LET e100 == (100 * features.energy.n) \div features.energy.d
            c    == ClampedLightness100(MOOD_PALETTE[mood].baseLightness, e100)
        IN  /\ color.h = MOOD_PALETTE[mood].hue
            /\ color.s = MOOD_PALETTE[mood].saturation
            /\ color.l = (c + 50) \div 100
            /\ color.h \in 0 .. 359
            /\ color.s \in 0 .. 100
            /\ color.l \in 10 .. 85

\* C19 witness: moodToColor('somber', 0.25) returned hsl(230, 60%, 13%),
\* the 12.5 rounded upward; the lowest lightness of the palette is not
\* clamped here.
C19_Witness ==
    /\ pc = "colored"
    /\ mood = "somber"
    /\ features.energy = Lit(25)
    /\ color = [h |-> 230, s |-> 60, l |-> 13]

\* C25: moodToColor called with a label that is not a palette key does not
\* fail: it uses the 'focused' entry (hue 128, saturation 45, baseLightness
\* 38) and returns a valid color.
C25_FallbackToFocused ==
    (pc = "colored" /\ mood \notin Vocabulary) =>
        LET e100 == (100 * features.energy.n) \div features.energy.d
        IN  /\ color.h = 128
            /\ color.s = 45
            /\ color.l = (ClampedLightness100(38, e100) + 50) \div 100
            /\ MOOD_PALETTE["focused"] =
                   [hue |-> 128, saturation |-> 45, baseLightness |-> 38]

Tables == {loudMap, quietMap, fastMap, slowMap, droneMap, wideMap, bassMap, noisyMap}

\* C4: the label getMood returns is a key of MOOD_PALETTE: on every input
\* classified, and because every label a table or the base grid can produce
\* is a key.
C4_MoodInPalette ==
    /\ pc \in {"classified", "mapped"} => mood \in DOMAIN MOOD_PALETTE
    /\ \A t \in Tables : \A k \in DOMAIN t : t[k] \in DOMAIN MOOD_PALETTE
    /\ \A e, b \in Hundredths({0, 35, 60, 38, 65, 100}) :
           baseMood(e, b) \in DOMAIN MOOD_PALETTE

\* C4 witness: the classifier returned a slow-tempo variant, mapped without
\* the fallback.
C4_Witness ==
    /\ pc = "mapped"
    /\ mood = "smoldering"
    /\ color.h = MOOD_PALETTE["smoldering"].hue

\* The labels of the base grid and the labels getMood returns on the grid.
GridMoods == {baseMood(e, b) : e, b \in Hundredths({0, 35, 60, 38, 65, 100})}
Returnable ==
    {getMood(f.energy, f.brightness, f.tempo, f.flux, f.spread, f.flatness,
             f.bassRatio, f.zcr) : f \in FeatureGrid}

\* C5 as stated: the vocabulary has exactly 30 values, 9 base moods plus 21
\* modifier variants (checked where a label is handed to moodToColor).
C5_ThirtyLabels ==
    pc = "label" =>
        /\ Cardinality(Vocabulary) = 30
        /\ Cardinality(GridMoods) = 9
        /\ Cardinality(Vocabulary \ GridMoods) = 21

\* C5 amended: the vocabulary (the palette's keys, which are exactly the
\* labels getMood returns) has 27 values: the 9 base-grid moods, 'silent',
\* and 17 modifier variants.
C5_TwentySevenLabels ==
    /\ pc = "label" =>
        /\ Cardinality(Vocabulary) = 27
        /\ Returnable = Vocabulary
        /\ Cardinality(GridMoods) = 9
        /\ GridMoods \subseteq Vocabulary
        /\ "silent" \in Vocabulary \ GridMoods
        /\ Cardinality(Vocabulary \ (GridMoods \cup {"silent"})) = 17
    /\ pc = "classified" => mood \in Vocabulary

\* C5 witness: the classifier returned a modifier variant.
C5_Witness ==
    /\ pc = "classified"
    /\ mood \in Vocabulary \ (GridMoods \cup {"silent"})
    /\ mood = "giddy"

\* C12: getMood returns 'silent' exactly when energy < 0.05 (0.05 itself
\* is not silent), whatever the other seven features are, and no modifier
\* table and no cell of the base grid yields 'silent'.
C12_SilenceGate ==
    /\ pc = "classified" => (mood = "silent" <=> RLt(features.energy, Lit(5)))
    /\ \A t \in Tables : \A k \in DOMAIN t : t[k] # "silent"
    /\ "silent" \notin GridMoods

\* C12 witness: energy exactly 0.05 classified as a mood other than silent,
\* with a modifier condition (bass) holding on the other features.
C12_Witness ==
    /\ pc = "classified"
    /\ features.energy = Lit(5)
    /\ features.bassRatio = Lit(50)
    /\ mood # "silent"

\* The cell of the 3x3 grid as the claim words it: the half-open bands of
\* energy and brightness, by row and column.
EnergyBand(e) ==
    IF ~RLt(e, Lit(60)) THEN 3 ELSE IF ~RLt(e, Lit(35)) THEN 2 ELSE 1
BrightnessBand(b) ==
    IF ~RLt(b, Lit(65)) THEN 3 ELSE IF ~RLt(b, Lit(38)) THEN 2 ELSE 1
GridCell ==
    <<<<"melancholic", "peaceful", "serene">>,
      <<"tense", "focused", "uplifting">>,
      <<"angry", "powerful", "excited">>>>
NoModifierHolds(f) ==
    /\ ~RLt(f.energy, Lit(5))
    /\ IsZero(f.tempo)
    /\ ~RLt(f.flux, Lit(5))
    /\ ~RGt(f.spread, Lit(55))
    /\ ~RGt(f.bassRatio, Lit(30))
    /\ ~RGt(f.flatness, Lit(70))

\* C13: with energy >= 0.05 and none of the Tempo, Flux, Spread, Bass and
\* Noise conditions holding, getMood returns the cell of the 3x3 grid that
\* the half-open bands of energy and brightness select.
C13_BaseGrid ==
    (pc = "classified" /\ NoModifierHolds(features)) =>
        mood = GridCell[EnergyBand(features.energy)][BrightnessBand(features.brightness)]

\* C13 witness: energy 0.349999 falls in the low band, at brightness 0.38.
C13_Witness ==
    /\ pc = "classified"
    /\ features.energy = Rat(349999, 1000000)
    /\ features.brightness = Lit(38)
    /\ NoModifierHolds(features)
    /\ mood = "peaceful"

\* The six steps as section 4.2 of the specification lists them: the
\* condition of each and the table it remaps through.
StepOrder == <<"Volume", "Tempo", "Flux", "Spread", "Bass", "Noise">>
PassThrough(table, m) == IF m \in DOMAIN table THEN table[m] ELSE m
Step(name, m, f) ==
    CASE name = "Volume" ->
            IF RGt(f.energy, Lit(80)) THEN PassThrough(loudMap, m)
            ELSE IF RLt(f.energy, Lit(22)) THEN PassThrough(quietMap, m)
            ELSE m
      [] name = "Tempo" ->
            IF RGt(f.tempo, Lit(65)) THEN PassThrough(fastMap, m)
            ELSE IF RGt(f.tempo, Zero) /\ RLt(f.tempo, Lit(25))
                 THEN PassThrough(slowMap, m)
            ELSE m
      [] name = "Flux" ->
            IF RLt(f.flux, Lit(5)) /\ RGt(f.energy, Lit(12))
            THEN PassThrough(droneMap, m) ELSE m
      [] name = "Spread" ->
            IF RGt(f.spread, Lit(55)) /\ RGt(f.energy, Lit(40))
            THEN PassThrough(wideMap, m) ELSE m
      [] name = "Bass" ->
            IF RGt(f.bassRatio, Lit(30)) /\ RGt(f.energy, Lit(25))
            THEN PassThrough(bassMap, m) ELSE m
      [] name = "Noise" ->
            IF RGt(f.flatness, Lit(70)) /\ RGt(f.zcr, Lit(15))
                   /\ RGt(f.energy, Lit(15))
            THEN PassThrough(noisyMap, m) ELSE m

RECURSIVE Chain(_, _, _, _)
\* the steps order[i], order[i+1], ... applied in turn to m
Chain(m, f, order, i) ==
    IF i > Len(order) THEN m
    ELSE Chain(Step(order[i], m, f), f, order, i + 1)

SwappedOrder == <<"Volume", "Tempo", "Spread", "Flux", "Bass", "Noise">>

\* An input on which Flux-then-Spread and Spread-then-Flux differ.
OrderSensitiveInput ==
    [energy |-> Lit(50), brightness |-> Lit(50), tempo |-> Lit(50),
     flux |-> Lit(0), spread |-> Lit(70), flatness |-> Lit(30),
     bassRatio |-> Lit(10), zcr |-> Lit(10)]

\* C6: getMood applies Volume, Tempo, Flux, Spread, Bass, Noise in that
\* order, each step remapping the previous step's output through its table
\* and passing moods absent from the table through; the result is this
\* composition on every input, and another order gives another label on
\* some input.
C6_OrderedChain ==
    /\ (pc = "classified" /\ ~RLt(features.energy, Lit(5))) =>
           mood = Chain(baseMood(features.energy, features.brightness),
                        features, StepOrder, 1)
    /\ LET f == OrderSensitiveInput
       IN  Chain(baseMood(f.energy, f.brightness), f, SwappedOrder, 1)
               # getMood(f.energy, f.brightness, f.tempo, f.flux, f.spread,
                         f.flatness, f.bassRatio, f.zcr)

\* C6 witness: a classified input on which the swapped order would have
\* given another label.
C6_Witness ==
    /\ pc = "classified"
    /\ features = OrderSensitiveInput
    /\ mood = "focused"
    /\ Chain(baseMood(features.energy, features.brightness), features,
             SwappedOrder, 1) = "heavy"

\* C7: the Volume step changes the base-grid mood for some input with
\* energy > 0.80 (through the loud table) and for some input with
\* 0.05 <= energy < 0.22 (through the quiet table).
C7_VolumeStepActs ==
    /\ \E e \in Hundredths(81 .. 100), b \in Hundredths(0 .. 100) :
           volumeModifier(baseMood(e, b), e) # baseMood(e, b)
    /\ \E e \in Hundredths(5 .. 21), b \in Hundredths(0 .. 100) :
           volumeModifier(baseMood(e, b), e) # baseMood(e, b)

\* The nine moods of the base grid and the seventeen tempo variants, by
\* name.
BaseMoods ==
    {"melancholic", "peaceful", "serene", "tense", "focused", "uplifting",
     "angry", "powerful", "excited"}
TempoVariants ==
    {"restless", "playful", "joyful", "frantic", "driven", "euphoric",
     "furious", "intense", "somber", "tranquil", "meditative", "brooding",
     "contemplative", "hopeful", "smoldering", "heavy", "giddy"}

\* The mood entering the Tempo step and the mood leaving it, on the input
\* of the state.
TempoStepIn ==
    volumeModifier(baseMood(features.energy, features.brightness),
                   features.energy)
TempoStepOut == tempoModifier(TempoStepIn, features.tempo)
LaterStepsOff(f) ==
    /\ ~RLt(f.flux, Lit(5))
    /\ ~RGt(f.spread, Lit(55))
    /\ ~RGt(f.bassRatio, Lit(30))
    /\ ~RGt(f.flatness, Lit(70))

\* C31: the Tempo step is total on what reaches it: fastMap and slowMap
\* have an entry for each of the 9 base moods and the mood entering the step
\* is a base mood, so with energy >= 0.05 and tempo > 0.65 or 0 < tempo <
\* 0.25 the mood leaving the step is a tempo variant and no base mood; with
\* tempo = 0 or 0.25 <= tempo <= 0.65 the step leaves the mood unchanged.
C31_TempoStepTotal ==
    (pc = "classified" /\ ~RLt(features.energy, Lit(5))) =>
        /\ BaseMoods \subseteq DOMAIN fastMap
        /\ BaseMoods \subseteq DOMAIN slowMap
        /\ TempoStepIn \in BaseMoods
        /\ (RGt(features.tempo, Lit(65))
               \/ (RGt(features.tempo, Zero) /\ RLt(features.tempo, Lit(25))))
              => /\ TempoStepOut \in TempoVariants
                 /\ TempoStepOut \notin BaseMoods
        /\ (IsZero(features.tempo)
               \/ (~RLt(features.tempo, Lit(25)) /\ ~RGt(features.tempo, Lit(65))))
              => TempoStepOut = TempoStepIn
        /\ LaterStepsOff(features) => mood = TempoStepOut

\* C31 witness: tempo exactly 0.25 left the base mood as it was, at an
\* energy where the Volume step's quiet condition holds.
C31_Witness ==
    /\ pc = "classified"
    /\ features.energy = Lit(5)
    /\ features.tempo = Lit(25)
    /\ LaterStepsOff(features)
    /\ TempoStepIn = "peaceful"
    /\ mood = "peaceful"


(***************************************************************************)
(* Claims on the capture UI (specification SpecDriver).                    *)
(***************************************************************************)

\* The handlers that run stopCapture: the stop buttons, a tab switch, the
\* end of the captured track, and the three start handlers.
StopSteps ==
    {"stopClick", "tabClick", "trackEnded", "micStart", "speakerStart",
     "fileChange"}

\* C17: at most one animation-frame callback of drawVisualization is
\* pending, and animationFrameId is non-null exactly when one is, namely
\* the one it names, in every state of the capture UI.
C17_SingleDrawLoop ==
    /\ Cardinality(rafPending) <= 1
    /\ animationFrameId # 0 <=> rafPending # {}
    /\ rafPending \subseteq {animationFrameId}

\* C17 witness: a draw loop is running on a live stream while the
\* completion of another start handler is still in flight.
C17_Witness ==
    /\ rafPending = {1}
    /\ animationFrameId = 1
    /\ sourceNode
    /\ mediaStream # 0
    /\ "speaker.context" \in pending

\* C26: at most one audio source is active at a time: in every state of
\* the capture UI at most one of bufferSource and sourceNode is non-null,
\* for any interleaving of file selections, start clicks, tab switches and
\* their completions.
C26_OneActiveSource == ~(bufferSource # "none" /\ sourceNode)

\* The completions of start handlers still in flight.
StartsPending ==
    pending \cap {"mic.stream", "mic.context", "speaker.stream",
                  "speaker.context", "file.context", "file.read",
                  "file.decode"}

\* C27: every MediaStream a start handler acquired is released: after a
\* stopCapture that runs when no start is pending, no acquired stream
\* still has a live track.
C27_StreamsReleased ==
    (lastOp \in StopSteps /\ StartsPending = {}) => liveStreams = {}

\* C28: the onended handler of a buffer source that was stopped never
\* tears down a newer source: when the ended event of a stopped source is
\* delivered while a newer source plays, the global bufferSource still
\* holds the playing source afterwards.
C28_EndedSparesNewerSource ==
    [][("file.ended" \in pending /\ "file.ended" \notin pending'
            /\ bufferSource = "playing")
           => bufferSource' = "playing"]_vars

\* No source, no stream, no draw loop.
Inactive ==
    /\ ~sourceNode
    /\ bufferSource = "none"
    /\ mediaStream = 0
    /\ animationFrameId = 0
    /\ rafPending = {}

\* C29: a stop cancels pending starts: whatever runs right after a stop
\* button, a tab switch or the end of the captured track (the completion
\* of a start issued before it, or a new start click) leaves sources, media
\* stream and draw loop inactive.
C29_StopCancelsPendingStarts ==
    [][(lastOp \in {"stopClick", "tabClick", "trackEnded"}) => Inactive']_vars

\* C30: when file playback has ended (onended has cleared bufferSource) and
\* no other source is active, the next animation-frame callback stops the
\* loop: it requests no further frame, animationFrameId becomes null,
\* getAudioFeatures is not called, and canvas, mood text and metric bars
\* are reset.
C30_DrawLoopStopsItself ==
    [][(lastOp' = "draw" /\ rafPending # {} /\ bufferSource = "none"
            /\ ~sourceNode)
           => /\ rafPending' = {}
              /\ animationFrameId' = 0
              /\ calls' = calls
              /\ UNCHANGED <<history, features>>
              /\ canvasFill' = White
              /\ moodDisplay' = ""
              /\ metricBars' = NoFeatures]_vars

\* C30 witness: the callback has stopped the loop after the played file
\* ended: the analyser is still there, no stopCapture has run since.
C30_Witness ==
    /\ lastOp = "draw"
    /\ calls >= 1
    /\ analyser
    /\ bufferSource = "none"
    /\ ~sourceNode
    /\ animationFrameId = 0
    /\ rafPending = {}
    /\ canvasFill = White
    /\ moodDisplay = ""
    /\ metricBars = NoFeatures

\* What stopCapture leaves: every audio global null, the start buttons
\* enabled, the stop buttons disabled, the mood text empty.
Stopped ==
    /\ bufferSource = "none"
    /\ ~sourceNode
    /\ ~silentGain
    /\ ~analyser
    /\ mediaStream = 0
    /\ animationFrameId = 0
    /\ dataArray = "null"
    /\ timeDomainArray = "null"
    /\ ~disabled.speakerStartBtn
    /\ disabled.speakerStopBtn
    /\ ~disabled.micStartBtn
    /\ disabled.micStopBtn
    /\ moodDisplay = ""

\* The handlers that run stopCapture and nothing after it.
StopOnly == {"stopClick", "tabClick", "trackEnded"}

\* C34: stopCapture is total and idempotent: it can run in every state of
\* the capture UI (nothing active, a capture running, a buffer source
\* created but never started), it leaves every audio global null, the start
\* buttons enabled, the stop buttons disabled and the mood text empty, and
\* run again right after, it changes nothing.
C34_StopCaptureIdempotent ==
    [][/\ ENABLED TabClick
       /\ (lastOp' \in StopOnly) => Stopped'
       /\ (lastOp \in StopOnly /\ lastOp' = "tabClick")
              => UNCHANGED <<bufferSource, sourceNode, silentGain, analyser,
                             mediaStream, liveStreams, trackOnended,
                             rafPending, animationFrameId, dataArray,
                             timeDomainArray, disabled, moodDisplay,
                             canvasFill, metricBars>>]_vars

\* C34 witness: stopCapture has torn down a file playback whose frames
\* were being drawn (the stopped source's 'ended' event is still to come).
C34_Witness ==
    /\ lastOp = "tabClick"
    /\ Stopped
    /\ calls >= 1
    /\ "file.ended" \in pending
    /\ rafPending = {}

\* The buffers are those of the analyser the global holds, or there is
\* neither analyser nor buffer.
BuffersOfAnalyser ==
    IF analyser
    THEN dataArray = "current" /\ timeDomainArray = "current"
    ELSE dataArray = "null" /\ timeDomainArray = "null"

\* C35: whenever drawVisualization passes its guard and processes a frame,
\* analyser, dataArray and timeDomainArray are non-null and the two buffers
\* were allocated by the setupAnalyser call that made the analyser; in
\* every state analyser is null exactly when both buffers are.
C35_FrameIntoOwnBuffers ==
    [][/\ BuffersOfAnalyser
       /\ BuffersOfAnalyser'
       /\ calls' = calls + 1
              => /\ analyser'
                 /\ dataArray' = "current"
                 /\ timeDomainArray' = "current"]_vars

\* C35 witness: the loop of a stream capture has processed its second
\* frame while the decode of a file selected earlier is still in flight.
C35_Witness ==
    /\ lastOp = "draw"
    /\ calls = 2
    /\ analyser
    /\ sourceNode
    /\ "file.decode" \in pending
    /\ dataArray = "current"
    /\ timeDomainArray = "current"

\* C2: the extractor history is reset when a session ends or restarts:
\* right after a handler that runs stopCapture, _state has prevEnergy = 0,
\* prevSpectrum = null and onsetTimes empty.  Stated as the claim states
\* it; stopCapture assigns nothing of _state, so the history of the frames
\* processed before it is still there.
C2_HistoryResetOnStop ==
    lastOp \in StopSteps =>
        /\ IsZero(prevEnergy)
        /\ prevSpectrum = Null
        /\ onsetTimes = <<>>

====
